---- MODULE Spec2Model ----
(***************************************************************************)
(* Model of components/script/wasm_compiler.rs: the compilation cache of   *)
(* compile_wat_to_js, compile_wat_internal, the datacount injection, the    *)
(* name-section scanners and the LEB128 reader.                             *)
(*                                                                         *)
(* Bytes are naturals 0..255, buffers are sequences of bytes.  Positions    *)
(* are 0-based as in the source: byte i of buffer b is b[i + 1].            *)
(***************************************************************************)
EXTENDS Integers, Sequences, FiniteSets, TLC

VARIABLES
    cache,      \* the HashMap<u64, Vec<u8>> behind get_cache()
    readers,    \* the callers holding the RwLock's shared read guard
    writer,     \* the caller holding its exclusive write guard, or NoThread
    pc,         \* per caller: where it is in compile_wat_to_js / clear_cache
    req,        \* per caller: the arguments of its current (or last) call
    bin,        \* per caller: the local binary (cached, or just compiled)
    ret,        \* per caller: what its last call returned
    encoded,    \* per caller: its call invoked wat::parse_str
    wrote,      \* per caller: its call inserted into the cache
    from,       \* per caller: the source whose compilation bin came from
    origin,     \* per cache key: the source whose compilation is stored
    lastStorer, \* the caller that inserted last, NoThread after a clear
    prev,       \* sequential runs: arguments and result of the call before
    quiet,      \* sequential runs: no clear since the caller's last hit or store
    expect,     \* sequential runs: at lookup, the call repeats the call
                \*   before, which returned Ok, and quiet held
    nfresh,     \* fill runs: how many fresh sources have been handed out
    debug,      \* the build: overflow checks on (debug) or off (release)
    buf,        \* scanner runs: the byte buffer handed to the function
    op,         \* scanner runs: "init", or the function that has been applied
    res,        \* scanner runs: what the function returned
    page        \* per adapter run on a page: how far its script has got

callVars == <<pc, req, bin, ret, encoded, wrote, from>>

histVars == <<prev, quiet, expect>>

cacheVars == <<cache, readers, writer, origin, lastStorer>>

scanVars == <<buf, op, res, page>>

vars == <<cacheVars, callVars, histVars, nfresh, debug, scanVars>>

(***************************************************************************)
(* u32 arithmetic.  A u32 is kept as its top 4 bits (hi) and its low 28     *)
(* bits (lo), so that every 32-bit value is represented exactly.            *)
(***************************************************************************)
Pow28 == 2^28

Zero32 == [hi |-> 0, lo |-> 0]

RECURSIVE BitOr(_, _)
BitOr(a, b) ==
    IF a = 0 THEN b
    ELSE IF b = 0 THEN a
    ELSE (IF a % 2 = 1 \/ b % 2 = 1 THEN 1 ELSE 0) + 2 * BitOr(a \div 2, b \div 2)

\* a | b on u32
Or32(a, b) == [hi |-> BitOr(a.hi, b.hi), lo |-> BitOr(a.lo, b.lo)]

\* ((x as u32) << s) for a 7-bit group x and 0 <= s <= 31, truncated to 32 bits
Shl32(x, s) ==
    IF s >= 28
    THEN [hi |-> (x * 2^(s - 28)) % 16, lo |-> 0]
    ELSE [hi |-> (x \div 2^(28 - s)) % 16, lo |-> (x % 2^(28 - s)) * 2^s]

\* n as usize.  Values of 2^28 and more are only ever compared with buffer
\* lengths and positions, all far below 2^28, so they are kept as 2^28.
AsUsize(n) == IF n.hi = 0 THEN n.lo ELSE Pow28

\* &data[pos..]
From(data, pos) == SubSeq(data, pos + 1, Len(data))

\* &data[a..b]
Slice(data, a, b) == SubSeq(data, a + 1, b)

(***************************************************************************)
(* read_leb128_u32: (value, bytes consumed).                               *)
(***************************************************************************)
RECURSIVE leb128_loop(_, _, _, _)
leb128_loop(data, pos, result, shift) ==
    IF pos >= Len(data) THEN [value |-> result, len |-> pos]
    ELSE LET byte == data[pos + 1]
             result2 == Or32(result, Shl32(byte % 128, shift))
             shift2 == shift + 7
         IN  IF byte < 128 THEN [value |-> result2, len |-> pos + 1]
             ELSE IF shift2 >= 32 THEN [value |-> result2, len |-> pos + 1]
             ELSE leb128_loop(data, pos + 1, result2, shift2)

\* the reader with shift starting at 7 instead of 0 (line 1139)
read_leb128_u32_start7(data) == leb128_loop(data, 0, Zero32, 7)

read_leb128_u32(data) == leb128_loop(data, 0, Zero32, 0)

(***************************************************************************)
(* The binary module format: magic, version, then (id, size, payload)*.     *)
(***************************************************************************)
Magic == <<0, 97, 115, 109>>            \* b"\0asm"

HeaderLen == 8

DatacountId == 12

DataId == 11

CodeId == 10

ScanLimit == 10000

NoOffset == -1                          \* code_section_offset = None

(***************************************************************************)
(* inject_datacount_section.  checks is the build's overflow checking: with *)
(* it (a debug build) a shift by 32 or more panics, without it (a release   *)
(* build) the shift amount wraps modulo 32.                                 *)
(***************************************************************************)
\* the section size loop: st is "ok" (break), "eof" (return) or "panic"
RECURSIVE size_loop(_, _, _, _, _)
size_loop(binary, j, size, shift, checks) ==
    IF j >= Len(binary) THEN [st |-> "eof", size |-> size, j |-> j]
    ELSE IF shift >= 32 /\ checks THEN [st |-> "panic", size |-> size, j |-> j]
    ELSE LET byte == binary[j + 1]
             size2 == Or32(size, Shl32(byte % 128, shift % 32))
         IN  IF byte < 128 THEN [st |-> "ok", size |-> size2, j |-> j + 1]
             ELSE size_loop(binary, j + 1, size2, shift + 7, checks)

\* the data section's leading count: while k < j + size && k < binary.len()
RECURSIVE count_loop(_, _, _, _, _, _)
count_loop(binary, k, limit, count, count_shift, checks) ==
    IF ~(k < limit /\ k < Len(binary)) THEN [st |-> "ok", count |-> count]
    ELSE IF count_shift >= 32 /\ checks THEN [st |-> "panic", count |-> count]
    ELSE LET byte == binary[k + 1]
             count2 == Or32(count, Shl32(byte % 128, count_shift % 32))
         IN  IF byte < 128 THEN [st |-> "ok", count |-> count2]
             ELSE count_loop(binary, k + 1, limit, count2, count_shift + 7, checks)

\* faulty variant of scan_sections (C22): the walk ends at the code section,
\* so that a data section after it is not counted
RECURSIVE scan_sections_to_code(_, _, _, _, _)
scan_sections_to_code(binary, i, data_segment_count, code_section_offset, checks) ==
    LET done(c, o) == [st |-> "done", count |-> c, offset |-> o]
        early(s) == [st |-> s, count |-> data_segment_count,
                     offset |-> code_section_offset]
    IN
    IF i >= Len(binary) THEN done(data_segment_count, code_section_offset)
    ELSE LET section_id == binary[i + 1] IN
         IF section_id = DatacountId THEN early("return")
         ELSE IF section_id = CodeId THEN done(data_segment_count, i)
         ELSE LET sz == size_loop(binary, i + 1, Zero32, 0, checks) IN
              IF sz.st = "eof" THEN early("return")
              ELSE IF sz.st = "panic" THEN early("panic")
              ELSE LET j == sz.j
                       cnt == IF section_id = DataId
                              THEN count_loop(binary, j, j + AsUsize(sz.size),
                                              Zero32, 0, checks)
                              ELSE [st |-> "ok", count |-> data_segment_count]
                       i2 == j + AsUsize(sz.size)
                   IN  IF cnt.st = "panic" THEN early("panic")
                       ELSE IF i2 >= Len(binary) \/ i2 > ScanLimit
                            THEN done(cnt.count, code_section_offset)
                            ELSE scan_sections_to_code(binary, i2, cnt.count,
                                                       code_section_offset, checks)

\* the section walk: st is "done" (the loop ended), "return" (early return)
\* or "panic"
RECURSIVE scan_sections(_, _, _, _, _)
scan_sections(binary, i, data_segment_count, code_section_offset, checks) ==
    LET done(c, o) == [st |-> "done", count |-> c, offset |-> o]
        early(s) == [st |-> s, count |-> data_segment_count,
                     offset |-> code_section_offset]
    IN
    IF i >= Len(binary) THEN done(data_segment_count, code_section_offset)
    ELSE LET section_id == binary[i + 1] IN
         IF section_id = DatacountId THEN early("return")
         ELSE LET sz == size_loop(binary, i + 1, Zero32, 0, checks) IN
              IF sz.st = "eof" THEN early("return")
              ELSE IF sz.st = "panic" THEN early("panic")
              ELSE LET j == sz.j
                       cnt == IF section_id = DataId
                              THEN count_loop(binary, j, j + AsUsize(sz.size),
                                              Zero32, 0, checks)
                              ELSE [st |-> "ok", count |-> data_segment_count]
                       offset2 == IF section_id = CodeId /\ code_section_offset = NoOffset
                                  THEN i ELSE code_section_offset
                       i2 == j + AsUsize(sz.size)
                   IN  IF cnt.st = "panic" THEN early("panic")
                       ELSE IF i2 >= Len(binary) \/ i2 > ScanLimit
                            THEN done(cnt.count, offset2)
                            ELSE scan_sections(binary, i2, cnt.count, offset2, checks)

\* n >>= 7 on u32
Shr7(n) == [hi |-> 0, lo |-> (n.lo \div 128) + n.hi * 2^21]

\* the LEB128 encoding of n (lines 790-801)
RECURSIVE leb128_encode(_)
leb128_encode(n) ==
    LET byte == n.lo % 128
        n2 == Shr7(n)
    IN  IF n2 = Zero32 THEN <<byte>> ELSE <<byte + 128>> \o leb128_encode(n2)

\* faulty variant of datacount_section (C24): the one-byte form of line 787
\* for every count
datacount_section_onebyte(data_segment_count) ==
    <<DatacountId, 1, data_segment_count.lo % 256>>

\* the section built at lines 786-805
datacount_section(data_segment_count) ==
    IF data_segment_count.hi = 0 /\ data_segment_count.lo < 128
    THEN <<DatacountId, 1, data_segment_count.lo>>
    ELSE LET count_bytes == leb128_encode(data_segment_count)
         IN  <<DatacountId, Len(count_bytes) % 256>> \o count_bytes

\* binary.splice(offset..offset, section)
Splice(binary, offset, section) ==
    SubSeq(binary, 1, offset) \o section \o SubSeq(binary, offset + 1, Len(binary))

\* faulty variant of inject_datacount_section (C25): the section is put after
\* the header without a look at the sections that are there
inject_datacount_section_blind(binary, checks) ==
    IF Len(binary) < HeaderLen \/ SubSeq(binary, 1, 4) # Magic
    THEN [panic |-> FALSE, binary |-> binary]
    ELSE [panic |-> FALSE,
          binary |-> SubSeq(binary, 1, HeaderLen) \o <<DatacountId, 1, 1>>
                     \o SubSeq(binary, HeaderLen + 1, Len(binary))]

\* faulty variant of inject_datacount_section (C16): the binary is left as
\* the encoder produced it
inject_datacount_section_skip(binary, checks) ==
    [panic |-> FALSE, binary |-> binary]

\* [panic, binary]: the buffer as the function leaves it
inject_datacount_section(binary, checks) ==
    IF Len(binary) < HeaderLen \/ SubSeq(binary, 1, 4) # Magic
    THEN [panic |-> FALSE, binary |-> binary]
    ELSE LET sc == scan_sections(binary, HeaderLen, Zero32, NoOffset, checks) IN
         IF sc.st = "panic" THEN [panic |-> TRUE, binary |-> binary]
         ELSE IF sc.st = "return" THEN [panic |-> FALSE, binary |-> binary]
         ELSE IF sc.count # Zero32 /\ sc.offset # NoOffset
              THEN [panic |-> FALSE,
                    binary |-> Splice(binary, sc.offset, datacount_section(sc.count))]
              ELSE [panic |-> FALSE, binary |-> binary]

(***************************************************************************)
(* parse_name_section and parse_field_names_subsection.  The field-name map *)
(* HashMap<String, Vec<String>> is a function from type indices (the key    *)
(* "type_<idx>") to sequences of names; a name is its byte sequence.        *)
(***************************************************************************)
NameBytes == <<110, 97, 109, 101>>      \* b"name"

CustomId == 0

FieldNamesId == 12

EmptyMap == [k \in {} |-> <<>>]

\* HashMap::insert
MapInsert(m, k, v) == [x \in DOMAIN m \cup {k} |-> IF x = k THEN v ELSE m[x]]

\* std::str::from_utf8(bytes).is_ok()
RECURSIVE IsUtf8(_)
IsUtf8(bytes) ==
    LET n == Len(bytes)
        cont(i) == i <= n /\ bytes[i] >= 128 /\ bytes[i] <= 191
        b == bytes[1]
    IN  IF n = 0 THEN TRUE
        ELSE IF b < 128 THEN IsUtf8(Tail(bytes))
        ELSE IF b >= 194 /\ b <= 223
             THEN cont(2) /\ IsUtf8(SubSeq(bytes, 3, n))
        ELSE IF b >= 224 /\ b <= 239
             THEN /\ cont(2) /\ cont(3)
                  /\ (b = 224 => bytes[2] >= 160)
                  /\ (b = 237 => bytes[2] <= 159)
                  /\ IsUtf8(SubSeq(bytes, 4, n))
        ELSE IF b >= 240 /\ b <= 244
             THEN /\ cont(2) /\ cont(3) /\ cont(4)
                  /\ (b = 240 => bytes[2] >= 144)
                  /\ (b = 244 => bytes[2] <= 143)
                  /\ IsUtf8(SubSeq(bytes, 5, n))
        ELSE FALSE

\* for _ in 0..field_count (lines 1104-1128): [pos, names]
RECURSIVE field_loop(_, _, _, _)
field_loop(data, pos, remaining, field_names) ==
    IF remaining = 0 \/ pos >= Len(data) THEN [pos |-> pos, names |-> field_names]
    ELSE LET field_idx == read_leb128_u32(From(data, pos))
             pos1 == pos + field_idx.len
             name_len == read_leb128_u32(From(data, pos1))
             pos2 == pos1 + name_len.len
             n == AsUsize(name_len.value)
         IN  IF pos2 + n > Len(data) THEN [pos |-> pos2, names |-> field_names]
             ELSE LET name_bytes == Slice(data, pos2, pos2 + n)
                  IN  field_loop(data, pos2 + n, remaining - 1,
                                 IF IsUtf8(name_bytes)
                                 THEN Append(field_names, name_bytes)
                                 ELSE field_names)

\* for _ in 0..type_count (lines 1088-1131)
RECURSIVE type_loop(_, _, _, _)
type_loop(data, pos, remaining, result) ==
    IF remaining = 0 \/ pos >= Len(data) THEN result
    ELSE LET type_idx == read_leb128_u32(From(data, pos))
             pos1 == pos + type_idx.len
             field_count == read_leb128_u32(From(data, pos1))
             pos2 == pos1 + field_count.len
             fl == field_loop(data, pos2, AsUsize(field_count.value), <<>>)
         IN  type_loop(data, fl.pos, remaining - 1,
                       MapInsert(result, type_idx.value, fl.names))

parse_field_names_subsection(data) ==
    LET type_count == read_leb128_u32(data)
    IN  type_loop(data, type_count.len, AsUsize(type_count.value), EmptyMap)

\* the subsection walk of the "name" section (lines 1040-1059): [panic, map]
RECURSIVE subsection_walk(_, _, _, _)
subsection_walk(wasm_binary, pos, section_end, field_names_map) ==
    IF pos >= section_end \/ pos + 1 >= section_end
    THEN [panic |-> FALSE, map |-> field_names_map]
    ELSE LET subsection_id == wasm_binary[pos + 1]
             subsection_size == read_leb128_u32(From(wasm_binary, pos + 1))
             pos1 == pos + 1 + subsection_size.len
             subsection_end == pos1 + AsUsize(subsection_size.value)
         IN  IF subsection_id = FieldNamesId
             THEN IF subsection_end > Len(wasm_binary)
                  THEN [panic |-> TRUE, map |-> field_names_map]  \* slice out of range
                  ELSE subsection_walk(wasm_binary, subsection_end, section_end,
                           parse_field_names_subsection(
                               Slice(wasm_binary, pos1, subsection_end)))
             ELSE subsection_walk(wasm_binary, subsection_end, section_end,
                                  field_names_map)

\* the section walk (lines 1005-1068): [panic, map]
RECURSIVE section_walk(_, _)
section_walk(wasm_binary, pos) ==
    LET none == [panic |-> FALSE, map |-> EmptyMap] IN
    IF pos >= Len(wasm_binary) \/ pos + 1 >= Len(wasm_binary) THEN none
    ELSE LET section_id == wasm_binary[pos + 1]
             section_size == read_leb128_u32(From(wasm_binary, pos + 1))
             pos1 == pos + 1 + section_size.len
         IN  IF section_id = CustomId
             THEN LET section_end == pos1 + AsUsize(section_size.value) IN
                  IF section_end > Len(wasm_binary) THEN none
                  ELSE LET name_len == read_leb128_u32(From(wasm_binary, pos1))
                           pos2 == pos1 + name_len.len
                           n == AsUsize(name_len.value)
                       IN  IF pos2 + n > Len(wasm_binary) THEN none
                           ELSE IF Slice(wasm_binary, pos2, pos2 + n) = NameBytes
                                THEN subsection_walk(wasm_binary, pos2 + n,
                                                     section_end, EmptyMap)
                                ELSE section_walk(wasm_binary, section_end)
             ELSE section_walk(wasm_binary, pos1 + AsUsize(section_size.value))

\* [panic, map]; an empty map is the JSON text "{}"
parse_name_section(wasm_binary) ==
    IF Len(wasm_binary) < HeaderLen THEN [panic |-> FALSE, map |-> EmptyMap]
    ELSE section_walk(wasm_binary, HeaderLen)

(***************************************************************************)
(* Text helpers: a source text is the sequence of its UTF-8 bytes.  The     *)
(* texts of the model are ASCII, so a char is a byte.                       *)
(***************************************************************************)
\* char::is_whitespace, on ASCII: \t \n \x0B \x0C \r and space
IsWhitespace(c) == c \in {9, 10, 11, 12, 13, 32}

\* whether needle sits in hay at 0-based position i
MatchAt(hay, needle, i) ==
    /\ i + Len(needle) <= Len(hay)
    /\ \A k \in 1..Len(needle) : hay[i + k] = needle[k]

\* str::find(needle): the first position, or -1 (None)
Find(hay, needle) ==
    LET hits == {i \in 0..Len(hay) : MatchAt(hay, needle, i)}
    IN  IF hits = {} THEN -1 ELSE CHOOSE i \in hits : \A j \in hits : i <= j

Contains(hay, needle) == Find(hay, needle) # -1

\* str::find(pred): the first position of a byte of the set, or -1
FindIn(hay, chars) ==
    LET hits == {i \in 0..Len(hay) - 1 : hay[i + 1] \in chars}
    IN  IF hits = {} THEN -1 ELSE CHOOSE i \in hits : \A j \in hits : i <= j

Whitespace == {9, 10, 11, 12, 13, 32}

\* str::trim
Trim(line) ==
    LET keep == {i \in 1..Len(line) : ~IsWhitespace(line[i])}
    IN  IF keep = {} THEN <<>>
        ELSE SubSeq(line, CHOOSE i \in keep : \A j \in keep : i <= j,
                          CHOOSE i \in keep : \A j \in keep : i >= j)

\* str::lines: split at \n, a trailing \r of a line dropped, no last empty line
RECURSIVE Lines(_)
Lines(text) ==
    IF text = <<>> THEN <<>>
    ELSE LET nl == FindIn(text, {10})
             raw == IF nl = -1 THEN text ELSE SubSeq(text, 1, nl)
             line == IF raw # <<>> /\ raw[Len(raw)] = 13
                     THEN SubSeq(raw, 1, Len(raw) - 1) ELSE raw
         IN  IF nl = -1 THEN <<line>>
             ELSE <<line>> \o Lines(SubSeq(text, nl + 2, Len(text)))

\* str::matches(c).count()
CountOf(line, c) == Cardinality({i \in 1..Len(line) : line[i] = c})

TypeKw == <<40, 116, 121, 112, 101>>                \* "(type"

StructKw == <<40, 115, 116, 114, 117, 99, 116>>     \* "(struct"

FieldKw == <<40, 102, 105, 101, 108, 100>>          \* "(field"

Dollar == <<36>>                                    \* "$"

CloseParen == 41                                    \* ')'

WasmGcStruct == <<87, 97, 115, 109, 71, 99, 83, 116, 114, 117, 99, 116>>

(***************************************************************************)
(* The metadata JSON.  "{}" is EmptyJson; the text                          *)
(* {"default":{"typeName":T,"fields":[F...]}} is DefaultJson(T, F).          *)
(***************************************************************************)
EmptyJson == [kind |-> "empty"]

DefaultJson(type_name, fields) ==
    [kind |-> "default", typeName |-> type_name, fields |-> fields]

\* the type name of a "(type $name (struct" line, with its $, or <<>> (no
\* name found: the line has no $ or no whitespace after it)
TypeNameOf(trimmed) ==
    LET start == Find(trimmed, Dollar)
        end == IF start = -1 THEN -1 ELSE FindIn(From(trimmed, start), Whitespace)
    IN  IF start = -1 \/ end = -1 THEN <<>>
        ELSE Slice(trimmed, start, start + end)

IsTypeLine(trimmed) == Contains(trimmed, TypeKw) /\ Contains(trimmed, StructKw)

\* extract_first_type_name
RECURSIVE first_type_name(_)
first_type_name(lines) ==
    IF lines = <<>> THEN WasmGcStruct
    ELSE LET trimmed == Trim(Head(lines)) IN
         IF IsTypeLine(trimmed) /\ TypeNameOf(trimmed) # <<>>
         THEN Tail(TypeNameOf(trimmed))
         ELSE first_type_name(Tail(lines))

extract_first_type_name(source) == first_type_name(Lines(source))

\* the field name a line contributes (lines 935-950), or <<>> for none
FieldNameOf(trimmed) ==
    LET field_marker == Find(trimmed, FieldKw)
        after_field == From(trimmed, field_marker + 6)
        field_start == Find(after_field, Dollar)
        name_part == From(after_field, field_start + 1)
        end == FindIn(name_part, Whitespace \cup {CloseParen})
    IN  IF field_marker = -1 \/ field_start = -1 \/ end = -1 THEN <<"none">>
        ELSE <<"some", SubSeq(name_part, 1, end)>>

\* the scan of parse_wat_field_names (lines 915-961): the map type_fields.
\* current_type is <<>> for None.
RECURSIVE wat_field_scan(_, _, _)
wat_field_scan(lines, current_type, type_fields) ==
    IF lines = <<>> THEN type_fields
    ELSE LET trimmed == Trim(Head(lines))
             current1 == IF IsTypeLine(trimmed) /\ TypeNameOf(trimmed) # <<>>
                         THEN TypeNameOf(trimmed) ELSE current_type
             field == FieldNameOf(trimmed)
             fields1 == IF current1 # <<>> /\ Contains(trimmed, FieldKw)
                           /\ field[1] = "some"
                        THEN MapInsert(type_fields, current1,
                                 Append(IF current1 \in DOMAIN type_fields
                                        THEN type_fields[current1] ELSE <<>>,
                                        field[2]))
                        ELSE type_fields
             current2 == IF /\ Contains(trimmed, <<CloseParen>>)
                            /\ current1 # <<>>
                            /\ ~Contains(trimmed, FieldKw)
                            /\ CountOf(trimmed, CloseParen) >= 2
                         THEN <<>> ELSE current1
         IN  wat_field_scan(Tail(lines), current2, fields1)

\* strip_prefix("$").unwrap_or(name)
StripDollar(name) == IF name # <<>> /\ name[1] = 36 THEN Tail(name) ELSE name

\* parse_wat_field_names: the set of texts it can return.  type_fields is a
\* HashMap, and iter().next() yields whichever entry its randomly seeded
\* hasher puts first.
parse_wat_field_names(source) ==
    LET type_fields == wat_field_scan(Lines(source), <<>>, EmptyMap)
    IN  IF DOMAIN type_fields = {} THEN {EmptyJson}
        ELSE {DefaultJson(StripDollar(t), type_fields[t]) : t \in DOMAIN type_fields}

\* augment_with_type_name on the non-empty map the name section gave: again
\* parsed.iter().next() is any entry of a HashMap
augment_with_type_name(source, field_names_map) ==
    {DefaultJson(extract_first_type_name(source), field_names_map[k]) :
        k \in DOMAIN field_names_map}

\* faulty variant of field_names_json (C26): the source text is asked first,
\* the name section only when the text declares no struct
field_names_json_text_first(source, field_names_map) ==
    IF field_names_map = EmptyMap \/ parse_wat_field_names(source) # {EmptyJson}
    THEN parse_wat_field_names(source)
    ELSE augment_with_type_name(source, field_names_map)

\* lines 85-94: the set of texts field_names_json can end up as
field_names_json(source, field_names_map) ==
    IF field_names_map = EmptyMap
    THEN parse_wat_field_names(source)
    ELSE augment_with_type_name(source, field_names_map)

(***************************************************************************)
(* transform_string_types (lines 566-639) and                               *)
(* transform_string_literal_to_data (lines 643-682).                        *)
(***************************************************************************)
\* str::starts_with
StartsWith(s, prefix) == MatchAt(s, prefix, 0)

\* str::replace: every match, left to right, matches not overlapping
RECURSIVE Replace(_, _, _)
Replace(s, pattern, to) ==
    LET at == Find(s, pattern)
    IN  IF at = -1 THEN s
        ELSE SubSeq(s, 1, at) \o to
             \o Replace(From(s, at + Len(pattern)), pattern, to)

\* format!("{}", n) of a usize: its decimal digits
RECURSIVE Decimal(_)
Decimal(n) ==
    IF n < 10 THEN <<48 + n>> ELSE Decimal(n \div 10) \o <<48 + (n % 10)>>

Quote == <<34>>                                     \* "\""

Newline == <<10>>                                   \* '\n'

\* (type $string
StringDecl ==
    <<40, 116, 121, 112, 101, 32, 36, 115, 116, 114, 105, 110, 103>>

\* (module
ModuleKw ==
    <<40, 109, 111, 100, 117, 108, 101>>

\* ;
Semicolon ==
    <<59>>

\* string
StringWord ==
    <<115, 116, 114, 105, 110, 103>>

\* $string
DollarString ==
    <<36, 115, 116, 114, 105, 110, 103>>

\* struct.new
StructNew ==
    <<115, 116, 114, 117, 99, 116, 46, 110, 101, 119>>

\*   ;; String type: array of i8 (UTF-8)\n
StringTypeComment ==
    <<32, 32, 59, 59, 32, 83, 116, 114, 105, 110, 103, 32, 116, 121, 112,
      101, 58, 32, 97, 114, 114, 97, 121, 32, 111, 102, 32, 105, 56, 32,
      40, 85, 84, 70, 45, 56, 41, 10>>

\*   (type $string (array (mut i8)))\n\n
StringTypeLine ==
    <<32, 32, 40, 116, 121, 112, 101, 32, 36, 115, 116, 114, 105, 110, 103,
      32, 40, 97, 114, 114, 97, 121, 32, 40, 109, 117, 116, 32, 105, 56,
      41, 41, 41, 10, 10>>

\* (mut string)
MutString ==
    <<40, 109, 117, 116, 32, 115, 116, 114, 105, 110, 103, 41>>

\* (mut (ref null $string))
MutRefString ==
    <<40, 109, 117, 116, 32, 40, 114, 101, 102, 32, 110, 117, 108, 108, 32,
      36, 115, 116, 114, 105, 110, 103, 41, 41>>

\* (param string)
ParamString ==
    <<40, 112, 97, 114, 97, 109, 32, 115, 116, 114, 105, 110, 103, 41>>

\* (param (ref null $string))
ParamRefString ==
    <<40, 112, 97, 114, 97, 109, 32, 40, 114, 101, 102, 32, 110, 117, 108,
      108, 32, 36, 115, 116, 114, 105, 110, 103, 41, 41>>

\* (result string)
ResultString ==
    <<40, 114, 101, 115, 117, 108, 116, 32, 115, 116, 114, 105, 110, 103,
      41>>

\* (result (ref null $string))
ResultRefString ==
    <<40, 114, 101, 115, 117, 108, 116, 32, 40, 114, 101, 102, 32, 110,
      117, 108, 108, 32, 36, 115, 116, 114, 105, 110, 103, 41, 41>>

\*   ;; String data sections\n
DataSectionsComment ==
    <<32, 32, 59, 59, 32, 83, 116, 114, 105, 110, 103, 32, 100, 97, 116,
      97, 32, 115, 101, 99, 116, 105, 111, 110, 115, 10>>

\* $str_
StrPrefix ==
    <<36, 115, 116, 114, 95>>

\* (data 
DataOpen ==
    <<40, 100, 97, 116, 97, 32>>

\* (array.new_data $string 
ArrayNewData ==
    <<40, 97, 114, 114, 97, 121, 46, 110, 101, 119, 95, 100, 97, 116, 97,
      32, 36, 115, 116, 114, 105, 110, 103, 32>>

\*  (i32.const 0) (i32.const 
ConstZeroConst ==
    <<32, 40, 105, 51, 50, 46, 99, 111, 110, 115, 116, 32, 48, 41, 32, 40,
      105, 51, 50, 46, 99, 111, 110, 115, 116, 32>>

\* lines 643-682: [line, data]; data is <<>> for None, else <<section>>
transform_string_literal_to_data(line, counter) ==
    LET struct_new_pos == Find(line, StructNew)
        after_struct_new == From(line, struct_new_pos)
        start_quote == Find(after_struct_new, Quote)
        absolute_start_quote == struct_new_pos + start_quote
        end_quote == Find(From(after_struct_new, start_quote + 1), Quote)
        literal_start == absolute_start_quote + 1
        literal_end == absolute_start_quote + 1 + end_quote
        string_content == Slice(line, literal_start, literal_end)
        data_id == StrPrefix \o Decimal(counter)
        data_section == DataOpen \o data_id \o <<32>> \o Quote \o string_content
                        \o Quote \o <<41>>
        array_init == ArrayNewData \o data_id \o ConstZeroConst
                      \o Decimal(Len(string_content)) \o <<41, 41>>
    IN  IF struct_new_pos = -1 \/ start_quote = -1 \/ end_quote = -1
        THEN [line |-> line, data |-> <<>>]
        ELSE [line |-> Slice(line, 0, absolute_start_quote) \o array_init
                       \o From(line, literal_end + 1),
              data |-> <<data_section>>]

\* lines 598-612
type_transformed(line) ==
    IF /\ Contains(line, StringWord)
       /\ ~Contains(line, DollarString)
       /\ ~Contains(line, StringDecl)
    THEN Replace(Replace(Replace(line, MutString, MutRefString),
                         ParamString, ParamRefString),
                 ResultString, ResultRefString)
    ELSE line

\* the loop of lines 576-627: [result, data_sections]
RECURSIVE lower_lines(_, _, _, _, _, _)
lower_lines(lines, result, in_module, string_type_added, has_string_type, data_sections) ==
    IF lines = <<>> THEN [result |-> result, data_sections |-> data_sections]
    ELSE LET line == Head(lines)
             trimmed == Trim(line)
         IN  IF StartsWith(trimmed, ModuleKw)
             THEN lower_lines(Tail(lines), result \o line \o Newline, TRUE,
                              string_type_added, has_string_type, data_sections)
             ELSE LET add == /\ in_module /\ ~string_type_added
                             /\ ~has_string_type /\ trimmed # <<>>
                             /\ ~StartsWith(trimmed, Semicolon)
                      result1 == IF add
                                 THEN result \o StringTypeComment \o StringTypeLine
                                 ELSE result
                      typed == type_transformed(line)
                      lit == IF Contains(trimmed, StructNew) /\ Contains(trimmed, Quote)
                             THEN transform_string_literal_to_data(
                                      typed, Len(data_sections))
                             ELSE [line |-> typed, data |-> <<>>]
                  IN  lower_lines(Tail(lines), result1 \o lit.line \o Newline,
                                  in_module, string_type_added \/ add,
                                  has_string_type, data_sections \o lit.data)

\* lines 630-636
RECURSIVE data_lines(_)
data_lines(data_sections) ==
    IF data_sections = <<>> THEN <<>>
    ELSE <<32, 32>> \o Head(data_sections) \o Newline
         \o data_lines(Tail(data_sections))

\* faulty variant of transform_string_types (C11): the declaration is added
\* whether or not the source has one
transform_string_types_redeclare(source) ==
    LET done == lower_lines(Lines(source), <<>>, FALSE, FALSE, FALSE, <<>>)
    IN  IF done.data_sections = <<>> THEN done.result
        ELSE done.result \o Newline \o DataSectionsComment
             \o data_lines(done.data_sections)

transform_string_types(source) ==
    LET has_string_type == Contains(source, StringDecl)
        done == lower_lines(Lines(source), <<>>, FALSE, FALSE, has_string_type, <<>>)
    IN  IF done.data_sections = <<>> THEN done.result
        ELSE done.result \o Newline \o DataSectionsComment
             \o data_lines(done.data_sections)

(***************************************************************************)
(* The source texts of the model, by id.                                    *)
(***************************************************************************)
Header == Magic \o <<1, 0, 0, 0>>

\* (module (func) (data "
DataPrefix ==
    <<40, 109, 111, 100, 117, 108, 101, 32, 40, 102, 117, 110, 99, 41, 32,
      40, 100, 97, 116, 97, 32, 34>>

\* "))
DataSuffix == <<34, 41, 41>>

\* (module
ModuleOpen == <<40, 109, 111, 100, 117, 108, 101>>

\* (module (invalid syntax)), the text of test_invalid_wat
InvalidWat ==
    <<40, 109, 111, 100, 117, 108, 101, 32, 40, 105, 110, 118, 97, 108, 105,
      100, 32, 115, 121, 110, 116, 97, 120, 41, 41>>

\* (module
\*   (type $A (struct (field $x i32)))
\*   (type $B (struct (field $y i32)))
\* )
TwoStructs ==
    <<40, 109, 111, 100, 117, 108, 101, 10,
      32, 32, 40, 116, 121, 112, 101, 32, 36, 65, 32, 40, 115, 116, 114, 117,
      99, 116, 32, 40, 102, 105, 101, 108, 100, 32, 36, 120, 32, 105, 51, 50,
      41, 41, 41, 10,
      32, 32, 40, 116, 121, 112, 101, 32, 36, 66, 32, 40, 115, 116, 114, 117,
      99, 116, 32, 40, 102, 105, 101, 108, 100, 32, 36, 121, 32, 105, 51, 50,
      41, 41, 41, 10, 41>>

\* a binary module handed in as the source: a code section, then a data
\* section declaring one segment, no datacount section
BinarySource == Header \o <<10, 4, 1, 2, 0, 11>> \o <<11, 4, 1, 1, 1, 97>>

FixedSources ==
    << DataPrefix \o <<97, 98>> \o DataSuffix,      \* 1: ... (data "ab"))
       DataPrefix \o <<98, 97>> \o DataSuffix,      \* 2: ... (data "ba"))
       InvalidWat,                                  \* 3
       BinarySource,                                \* 4
       TwoStructs >>                                \* 5

\* (module, n spaces, ): pairwise distinct texts of the empty module
PaddedModule(n) == ModuleOpen \o [i \in 1..n |-> 32] \o <<41>>

SourceText(id) ==
    IF id <= Len(FixedSources) THEN FixedSources[id]
    ELSE PaddedModule(id - Len(FixedSources) - 1)

(***************************************************************************)
(* wat::parse_str, the external text-to-binary encoder, on the texts of the *)
(* model: the binary it produces, or its diagnostic.  Texts outside the     *)
(* three shapes below do not occur as valid modules in the model.           *)
(***************************************************************************)
IsPaddedModule(source) ==
    /\ Len(source) >= Len(ModuleOpen) + 1
    /\ SubSeq(source, 1, Len(ModuleOpen)) = ModuleOpen
    /\ source[Len(source)] = 41
    /\ \A i \in Len(ModuleOpen) + 1 .. Len(source) - 1 : source[i] = 32

IsDataModule(source) ==
    /\ Len(source) >= Len(DataPrefix) + Len(DataSuffix)
    /\ SubSeq(source, 1, Len(DataPrefix)) = DataPrefix
    /\ SubSeq(source, Len(source) - Len(DataSuffix) + 1, Len(source)) = DataSuffix
    /\ \A i \in Len(DataPrefix) + 1 .. Len(source) - Len(DataSuffix) :
           source[i] \in 97..122

\* type, function and code section of (func), then one passive data segment
DataModuleBinary(lit) ==
    Header \o <<1, 4, 1, 96, 0, 0>> \o <<3, 2, 1, 0>> \o <<10, 4, 1, 2, 0, 11>>
           \o <<11, 3 + Len(lit), 1, 1, Len(lit)>> \o lit

\* two struct types, and the name section with its type names (subsection
\* 4) and field names (subsection 10)
TwoStructsBinary ==
    Header \o <<1, 9, 2, 95, 1, 127, 0, 95, 1, 127, 0>>
           \o <<0, 27, 4>> \o NameBytes
           \o <<4, 7, 2, 0, 1, 65, 1, 1, 66>>
           \o <<10, 11, 2, 0, 1, 0, 1, 120, 1, 1, 0, 1, 121>>

wat_parse_str(source) ==
    IF IsPaddedModule(source) THEN [ok |-> TRUE, binary |-> Header]
    ELSE IF IsDataModule(source)
    THEN [ok |-> TRUE,
          binary |-> DataModuleBinary(
              SubSeq(source, Len(DataPrefix) + 1, Len(source) - Len(DataSuffix)))]
    ELSE IF source = TwoStructs THEN [ok |-> TRUE, binary |-> TwoStructsBinary]
    ELSE [ok |-> FALSE, diag |-> <<"wat::Error", source>>]

(***************************************************************************)
(* calculate_hash.  DefaultHasher (SipHash) is not computed here: the       *)
(* fingerprint is a stand-in digest, the sum of the bytes, which never      *)
(* leaves the u64 range on the texts of the model.  As any function from    *)
(* texts to 64 bits it is not injective: sources 1 and 2 collide.           *)
(***************************************************************************)
RECURSIVE SumBytes(_)
SumBytes(bytes) == IF bytes = <<>> THEN 0 ELSE Head(bytes) + SumBytes(Tail(bytes))

calculate_hash(source) == SumBytes(source)

(***************************************************************************)
(* compile_wat_internal: [kind, binary, msg, encoder].  kind is "ok", "err" *)
(* (CompileError::ParseError(msg)) or "panic"; encoder tells whether        *)
(* wat::parse_str was invoked.                                              *)
(***************************************************************************)
\* faulty variant of IsBinaryWasm (C2): the magic number is never recognised
IsBinaryWasm_never(source_bytes) == FALSE

\* line 688
IsBinaryWasm(source_bytes) ==
    Len(source_bytes) >= 4 /\ SubSeq(source_bytes, 1, 4) = Magic

\* Ok(wasm_binary.to_vec())
inject_gc_accessors(wasm_binary) == wasm_binary

\* faulty variant of compile_wat_internal (C5): the encoder's error is
\* swallowed and an empty binary returned
compile_wat_internal_swallow(source, filename, checks) ==
    [kind |-> "ok", binary |-> <<>>, encoder |-> TRUE,
     msg |-> [in |-> filename, diag |-> <<>>]]

compile_wat_internal(source, filename, checks) ==
    LET binary == IsBinaryWasm(source)
        parsed == wat_parse_str(source)
    IN  IF ~binary /\ ~parsed.ok
        THEN [kind |-> "err", binary |-> <<>>, encoder |-> TRUE,
              msg |-> [in |-> filename, diag |-> parsed.diag]]
        ELSE LET inj == inject_datacount_section(
                            IF binary THEN source ELSE parsed.binary, checks)
             IN  [kind |-> IF inj.panic THEN "panic" ELSE "ok",
                  binary |-> IF inj.panic THEN <<>> ELSE inject_gc_accessors(inj.binary),
                  encoder |-> ~binary,
                  msg |-> [in |-> filename, diag |-> <<>>]]

(***************************************************************************)
(* The generated JavaScript (lines 96-561), by its variable parts: the      *)
(* byte array literal, the metadata literal and the wasmloaded listener.    *)
(***************************************************************************)
\* format!("0x{:02X}", b): the two hex digits
Hex2(b) == <<b \div 16, b % 16>>

NoCallback == <<"none">>

SomeCallback(code) == <<"some", code>>

\* lines 551-558
listener(callback) ==
    IF callback[1] = "some" /\ Trim(callback[2]) # <<>>
    THEN SomeCallback(callback[2]) ELSE NoCallback

\* an uppercase hexadecimal digit
HexDigit(d) == IF d < 10 THEN 48 + d ELSE 55 + d

\* format!("0x{:02X}", b) as text
ByteLiteral(b) == <<48, 120>> \o <<HexDigit(Hex2(b)[1]), HexDigit(Hex2(b)[2])>>

\* parts.join(sep)
RECURSIVE Join(_, _)
Join(parts, sep) ==
    IF parts = <<>> THEN <<>>
    ELSE IF Len(parts) = 1 THEN parts[1]
    ELSE parts[1] \o sep \o Join(Tail(parts), sep)

CommaSpace == <<44, 32>>                                \* ", "

\* line 114 up to the byte array: "const wasmBytes = new Uint8Array(["
WasmBytesOpen ==
    <<99, 111, 110, 115, 116, 32, 119, 97, 115, 109, 66, 121, 116, 101,
      115, 32, 61, 32, 110, 101, 119, 32, 85, 105, 110, 116, 56, 65, 114,
      114, 97, 121, 40, 91>>

WasmBytesClose == <<93, 41, 59>>                        \* "]);"

\* line 139: "WebAssembly.instantiate(wasmBytes, importObject)"
Instantiate ==
    <<87, 101, 98, 65, 115, 115, 101, 109, 98, 108, 121, 46, 105, 110, 115,
      116, 97, 110, 116, 105, 97, 116, 101, 40, 119, 97, 115, 109, 66, 121,
      116, 101, 115, 44, 32, 105, 109, 112, 111, 114, 116, 79, 98, 106,
      101, 99, 116, 41>>

\* the two lines of the template that hold and load the binary
loader(wasm_binary) ==
    WasmBytesOpen
    \o Join([i \in 1..Len(wasm_binary) |-> ByteLiteral(wasm_binary[i])],
            CommaSpace)
    \o WasmBytesClose \o Newline \o Instantiate

generate_js(wasm_binary, json, callback) ==
    [byte_array |-> [i \in 1..Len(wasm_binary) |-> Hex2(wasm_binary[i])],
     loader |-> loader(wasm_binary),
     field_names |-> json,
     listener |-> listener(callback)]

(***************************************************************************)
(* compile_wat_to_js and clear_cache.                                       *)
(***************************************************************************)
NumThreads == 2

Threads == 1..NumThreads

NoThread == 0

CacheLimit == 100

NoResult == [kind |-> "none"]

NoRequest == [source |-> 0, filename |-> "", callback |-> NoCallback]

GoCallback == SomeCallback(<<103, 111, 40, 41>>)        \* go()

BlankCallback == SomeCallback(<<32, 32>>)

\* faulty variant of cache_key (C8): every source gets the same key
cache_key_const(t) == 0

cache_key(t) == calculate_hash(SourceText(req[t].source))

\* faulty variant of ReleaseRead (C10): the read guard is kept past the lookup
ReleaseRead_keep(rs, t) == rs

\* dropping the read guard at the end of the block of lines 57-60
ReleaseRead(rs, t) == rs \ {t}

\* faulty variant of cache_store (C9): the entry is not inserted
cache_store_drop(c, key, binary) ==
    IF Cardinality(DOMAIN c) > CacheLimit THEN EmptyMap ELSE c

\* faulty variant of cache_store (C20): over the limit one entry is evicted
\* instead of all
cache_store_partial(c, key, binary) ==
    LET over == Cardinality(DOMAIN c) > CacheLimit
        victim == CHOOSE k \in DOMAIN c : \A j \in DOMAIN c : k <= j
        kept == IF over THEN [k \in DOMAIN c \ {victim} |-> c[k]] ELSE c
    IN  [x \in DOMAIN kept \cup {key} |-> IF x = key THEN binary ELSE kept[x]]

\* lines 74-77: clear when over the limit, then insert
cache_store(c, key, binary) ==
    LET kept == IF Cardinality(DOMAIN c) > CacheLimit THEN EmptyMap ELSE c
    IN  MapInsert(kept, key, binary)

\* lines 50-54: the call starts
CallBody(t, r) ==
    /\ pc[t] = "idle"
    /\ pc' = [pc EXCEPT ![t] = "start"]
    /\ req' = [req EXCEPT ![t] = r]
    /\ ret' = [ret EXCEPT ![t] = NoResult]
    /\ bin' = [bin EXCEPT ![t] = <<>>]
    /\ encoded' = [encoded EXCEPT ![t] = FALSE]
    /\ wrote' = [wrote EXCEPT ![t] = FALSE]
    /\ from' = [from EXCEPT ![t] = 0]
    /\ UNCHANGED <<cacheVars, debug, scanVars>>

\* line 58: get_cache().read()
AcquireRead(t) ==
    /\ pc[t] = "start"
    /\ writer = NoThread
    /\ readers' = readers \cup {t}
    /\ pc' = [pc EXCEPT ![t] = "read"]
    /\ UNCHANGED <<cache, writer, origin, lastStorer, req, bin, ret, encoded,
                   wrote, from, histVars, nfresh, debug, scanVars>>

\* lines 59-65: cache.get(&cache_key).cloned(), the guard dropped
ReadGetBody(t) ==
    /\ pc[t] = "read"
    /\ readers' = ReleaseRead(readers, t)
    /\ IF cache_key(t) \in DOMAIN cache
       THEN /\ bin' = [bin EXCEPT ![t] = cache[cache_key(t)]]
            /\ from' = [from EXCEPT ![t] = origin[cache_key(t)]]
            /\ pc' = [pc EXCEPT ![t] = "emit"]
       ELSE /\ pc' = [pc EXCEPT ![t] = "miss"]
            /\ UNCHANGED <<bin, from>>
    /\ UNCHANGED <<cache, writer, origin, lastStorer, req, ret, encoded,
                   wrote, nfresh, debug, scanVars>>

\* line 67: compile_wat_internal(source, filename)?
Compile(t) ==
    /\ pc[t] = "miss"
    /\ LET c == compile_wat_internal(SourceText(req[t].source), req[t].filename,
                                     debug)
       IN  /\ encoded' = [encoded EXCEPT ![t] = c.encoder]
           /\ CASE c.kind = "ok" ->
                     /\ bin' = [bin EXCEPT ![t] = c.binary]
                     /\ from' = [from EXCEPT ![t] = req[t].source]
                     /\ pc' = [pc EXCEPT ![t] = "compiled"]
                     /\ UNCHANGED ret
                [] c.kind = "err" ->
                     /\ ret' = [ret EXCEPT ![t] = [kind |-> "err", msg |-> c.msg]]
                     /\ pc' = [pc EXCEPT ![t] = "idle"]
                     /\ UNCHANGED <<bin, from>>
                [] c.kind = "panic" ->
                     /\ ret' = [ret EXCEPT ![t] = [kind |-> "panic"]]
                     /\ pc' = [pc EXCEPT ![t] = "idle"]
                     /\ UNCHANGED <<bin, from>>
    /\ UNCHANGED <<cacheVars, req, wrote, histVars, nfresh, debug, scanVars>>

\* line 72: get_cache().write()
AcquireWrite(t) ==
    /\ pc[t] = "compiled"
    /\ writer = NoThread
    /\ readers = {}
    /\ writer' = t
    /\ pc' = [pc EXCEPT ![t] = "write"]
    /\ UNCHANGED <<cache, readers, origin, lastStorer, req, bin, ret, encoded,
                   wrote, from, histVars, nfresh, debug, scanVars>>

\* lines 74-78: the eviction, the insert, the guard dropped
StoreBody(t) ==
    /\ pc[t] = "write"
    /\ cache' = cache_store(cache, cache_key(t), bin[t])
    /\ origin' = [k \in DOMAIN cache' |->
                     IF k = cache_key(t) THEN from[t] ELSE origin[k]]
    /\ lastStorer' = t
    /\ writer' = NoThread
    /\ wrote' = [wrote EXCEPT ![t] = TRUE]
    /\ pc' = [pc EXCEPT ![t] = "emit"]
    /\ UNCHANGED <<readers, req, bin, ret, encoded, from, nfresh, debug,
                   scanVars>>

\* lines 85-561: the metadata, the JavaScript, the return
Emit(t) ==
    /\ pc[t] = "emit"
    /\ LET names == parse_name_section(bin[t]) IN
       IF names.panic
       THEN ret' = [ret EXCEPT ![t] = [kind |-> "panic"]]
       ELSE \E json \in field_names_json(SourceText(req[t].source), names.map) :
                ret' = [ret EXCEPT ![t] =
                    [kind |-> "ok",
                     js |-> generate_js(bin[t], json, req[t].callback)]]
    /\ pc' = [pc EXCEPT ![t] = "idle"]
    /\ bin' = [bin EXCEPT ![t] = <<>>]
    /\ UNCHANGED <<cacheVars, req, encoded, wrote, from, histVars, nfresh,
                   debug, scanVars>>

\* clear_cache, line 1168: get_cache().write()
ClearAcquire(t) ==
    /\ pc[t] = "idle"
    /\ writer = NoThread
    /\ readers = {}
    /\ writer' = t
    /\ pc' = [pc EXCEPT ![t] = "clearing"]
    /\ UNCHANGED <<cache, readers, origin, lastStorer, req, bin, ret, encoded,
                   wrote, from, histVars, nfresh, debug, scanVars>>

\* faulty variant of cache_clear (C19): the entries are kept
cache_clear_keep(c) == c

\* HashMap::clear (line 1168)
cache_clear(c) == EmptyMap

\* clear_cache, line 1168: .clear(), the guard dropped
ClearBody(t) ==
    /\ pc[t] = "clearing"
    /\ cache' = cache_clear(cache)
    /\ origin' = [k \in DOMAIN cache' |-> origin[k]]
    /\ lastStorer' = NoThread
    /\ writer' = NoThread
    /\ pc' = [pc EXCEPT ![t] = "idle"]
    /\ UNCHANGED <<readers, req, bin, ret, encoded, wrote, from, debug,
                   scanVars>>

InitCalls ==
    /\ cache = EmptyMap
    /\ origin = EmptyMap
    /\ readers = {}
    /\ writer = NoThread
    /\ lastStorer = NoThread
    /\ pc = [t \in Threads |-> "idle"]
    /\ req = [t \in Threads |-> NoRequest]
    /\ bin = [t \in Threads |-> <<>>]
    /\ ret = [t \in Threads |-> NoResult]
    /\ encoded = [t \in Threads |-> FALSE]
    /\ wrote = [t \in Threads |-> FALSE]
    /\ from = [t \in Threads |-> 0]
    /\ prev = [req |-> NoRequest, res |-> NoResult]
    /\ quiet = FALSE
    /\ expect = FALSE
    /\ nfresh = 0
    /\ debug \in BOOLEAN

\* no generated script has been run
NoAdapter == [phase |-> "none", listener |-> NoCallback, runs |-> 0,
              early |-> FALSE]

NumAdapters == 2

Adapters == 1..NumAdapters

InitPage == page = [a \in Adapters |-> NoAdapter]

InitScanIdle ==
    /\ buf = <<>>
    /\ op = "init"
    /\ res = [kind |-> "none"]
    /\ InitPage

Init == InitCalls /\ InitScanIdle

(***************************************************************************)
(* Spec: callers on several threads, each calling compile_wat_to_js and     *)
(* clear_cache any number of times.                                         *)
(***************************************************************************)
\* the calls the callers of the concurrent runs make: the two colliding
\* sources and the unparsable one
Requests ==
    {[source |-> i, filename |-> "a.wat", callback |-> NoCallback] : i \in 1..2}
    \cup {[source |-> 3, filename |-> "b.wat", callback |-> NoCallback]}

Call(t, r) == CallBody(t, r) /\ UNCHANGED <<histVars, nfresh>>

ReadGet(t) == ReadGetBody(t) /\ UNCHANGED histVars

Store(t) == StoreBody(t) /\ UNCHANGED histVars

Clear(t) == ClearBody(t) /\ UNCHANGED <<histVars, nfresh>>

Next ==
    \/ \E t \in Threads, r \in Requests : Call(t, r)
    \/ \E t \in Threads : AcquireRead(t)
    \/ \E t \in Threads : ReadGet(t)
    \/ \E t \in Threads : Compile(t)
    \/ \E t \in Threads : AcquireWrite(t)
    \/ \E t \in Threads : Store(t)
    \/ \E t \in Threads : Emit(t)
    \/ \E t \in Threads : ClearAcquire(t)
    \/ \E t \in Threads : Clear(t)

Spec == Init /\ [][Next]_vars

(***************************************************************************)
(* SpecSeq: one caller, one call after the other, with the history of its   *)
(* calls kept (prev, quiet, expect).                                        *)
(***************************************************************************)
Caller == 1

SeqRequests ==
    {[source |-> i, filename |-> f, callback |-> c] :
        i \in 1..Len(FixedSources) + 1, f \in {"a.wat"},
        c \in {NoCallback, GoCallback, BlankCallback}}

SeqCall(r) ==
    /\ CallBody(Caller, r)
    /\ prev' = [req |-> req[Caller], res |-> ret[Caller]]
    /\ expect' = FALSE
    /\ UNCHANGED <<quiet, nfresh>>

SeqReadGet ==
    /\ ReadGetBody(Caller)
    /\ expect' = (prev.req = req[Caller] /\ prev.res.kind = "ok" /\ quiet)
    /\ quiet' = (quiet \/ cache_key(Caller) \in DOMAIN cache)
    /\ UNCHANGED prev

SeqStore ==
    /\ StoreBody(Caller)
    /\ quiet' = TRUE
    /\ UNCHANGED <<prev, expect>>

SeqClear ==
    /\ ClearBody(Caller)
    /\ quiet' = FALSE
    /\ UNCHANGED <<prev, expect, nfresh>>

NextSeq ==
    \/ \E r \in SeqRequests : SeqCall(r)
    \/ AcquireRead(Caller)
    \/ SeqReadGet
    \/ Compile(Caller)
    \/ AcquireWrite(Caller)
    \/ SeqStore
    \/ Emit(Caller)
    \/ ClearAcquire(Caller)
    \/ SeqClear

SpecSeq == Init /\ [][NextSeq]_vars

(***************************************************************************)
(* SpecFill: one caller compiling pairwise distinct sources one after the   *)
(* other, (module) with 0, 1, 2, ... spaces, and clearing the cache.        *)
(* nfresh counts the sources compiled since the cache was last empty (at    *)
(* the start, or after clear_cache).                                        *)
(***************************************************************************)
MaxFresh == 103

FreshRequest(n) ==
    [source |-> Len(FixedSources) + 1 + n, filename |-> "a.wat",
     callback |-> NoCallback]

FreshCall(t) ==
    /\ nfresh < MaxFresh
    /\ CallBody(t, FreshRequest(nfresh))
    /\ nfresh' = nfresh + 1
    /\ UNCHANGED histVars

FillClear ==
    /\ ClearBody(Caller)
    /\ nfresh' = 0
    /\ UNCHANGED histVars

NextFill ==
    \/ FreshCall(Caller)
    \/ AcquireRead(Caller)
    \/ ReadGet(Caller)
    \/ Compile(Caller)
    \/ AcquireWrite(Caller)
    \/ Store(Caller)
    \/ Emit(Caller)
    \/ ClearAcquire(Caller)
    \/ FillClear

SpecFill == Init /\ [][NextFill]_vars

(***************************************************************************)
(* SpecScan: the byte scanners and the compilation step applied to one     *)
(* input each.  The inputs are binaries assembled from well-formed and     *)
(* malformed sections, modules longer than the scan limit, and raw byte    *)
(* strings.                                                                *)
(***************************************************************************)
MaxSections == 3
MaxRaw == 6

Zeros(n) == [i \in 1..n |-> 0]

CodeSection == <<10, 2, 0, 0>>
DataSection1 == <<11, 4, 1, 1, 1, 97>>
DataSection0 == <<11, 1, 0>>
DataSection200 == <<11, 2, 200, 1>>
DatacountSection == <<12, 1, 1>>
TypeSection == <<1, 1, 0>>
\* custom section "name" with subsection 12: type 0, field 0 named "x"
NameSection == <<0, 13, 4>> \o NameBytes \o <<12, 6, 1, 0, 1, 0, 1, 120>>
\* custom section "name" whose subsection 12 claims 5 bytes and has none
ShortNameSection == <<0, 7, 4>> \o NameBytes \o <<12, 5>>
\* a section claiming more bytes than follow
OversizeSection == <<1, 5, 0>>
\* a section size of eight bytes with the continuation bit, valid UTF-8
LongSizeSection == <<1, 240, 144, 128, 128, 240, 144, 128, 128, 0>>
\* a section size cut off after a byte with the continuation bit
CutSizeSection == <<1, 128>>

SectionPool ==
    {CodeSection, DataSection1, DataSection0, DataSection200,
     DatacountSection, TypeSection, NameSection, ShortNameSection,
     OversizeSection, LongSizeSection, CutSizeSection}

RECURSIVE Bodies(_)
Bodies(n) ==
    IF n = 0 THEN {<<>>}
    ELSE LET shorter == Bodies(n - 1)
         IN shorter \cup {b \o sec : b \in shorter, sec \in SectionPool}

Modules == {Header \o b : b \in Bodies(MaxSections)}

\* a code section of 10000 zero bytes
BigCodeSection == <<10, 144, 78>> \o Zeros(ScanLimit)

BigModules ==
    {Header \o BigCodeSection \o DataSection1,
     Header \o DataSection1 \o BigCodeSection,
     Header \o TypeSection \o BigCodeSection \o DataSection200,
     Header \o DataSection1 \o BigCodeSection \o DatacountSection}

RawBytes == {1, 128, 255}

RECURSIVE RawStrings(_)
RawStrings(n) ==
    IF n = 0 THEN {<<>>}
    ELSE LET shorter == RawStrings(n - 1)
         IN shorter \cup {b \o <<x>> : b \in shorter, x \in RawBytes}

\* payloads of a field-name subsection
FieldSamples ==
    {<<1, 0, 1, 0, 3, 118, 97, 108>>,
     <<2, 0, 2, 0, 1, 97, 1, 1, 98, 1, 1, 0, 1, 99>>,
     <<255, 255, 255, 255, 15, 0, 2, 0, 1, 97, 1, 5, 98>>,
     <<1, 0, 1, 0, 2, 195, 40>>,
     <<1, 0, 2, 0, 0, 1, 1, 121>>}

HeaderCuts ==
    {SubSeq(Header, 1, k) : k \in 0..HeaderLen - 1}
    \cup {<<0, 97, 115, 110, 1, 0, 0, 0>> \o DataSection1 \o CodeSection}

ScanInputs ==
    Modules \cup BigModules \cup RawStrings(MaxRaw) \cup FieldSamples
    \cup HeaderCuts \cup {SourceText(i) : i \in 1..Len(FixedSources) + 1}

InitScan ==
    /\ InitCalls
    /\ buf \in ScanInputs
    /\ op = "init"
    /\ res = [kind |-> "none"]
    /\ InitPage

ScanDone(name) ==
    /\ op = "init"
    /\ op' = name
    /\ UNCHANGED <<cacheVars, callVars, histVars, nfresh, debug, buf, page>>

DoInject ==
    /\ ScanDone("inject")
    /\ res' = inject_datacount_section(buf, debug)

\* compile_wat_internal on a binary that is the result of an earlier
\* augmentation: the function applied to its own output
DoInjectTwice ==
    /\ ScanDone("inject2")
    /\ LET first == inject_datacount_section(buf, debug)
       IN  res' = [first |-> first,
                   second |-> IF first.panic THEN first
                              ELSE inject_datacount_section(first.binary, debug)]

DoParseNames ==
    /\ ScanDone("names")
    /\ res' = parse_name_section(buf)

DoParseFields ==
    /\ ScanDone("fields")
    /\ res' = [map |-> parse_field_names_subsection(buf)]

DoReadLeb ==
    /\ ScanDone("leb")
    /\ res' = read_leb128_u32(buf)

\* source is a &str: only valid UTF-8 reaches the compilation step
DoCompile ==
    /\ IsUtf8(buf)
    /\ ScanDone("compile")
    /\ res' = compile_wat_internal(buf, "a.wat", debug)

NextScan ==
    \/ DoInject
    \/ DoInjectTwice
    \/ DoParseNames
    \/ DoParseFields
    \/ DoReadLeb
    \/ DoCompile

SpecScan == InitScan /\ [][NextScan]_vars


(***************************************************************************)
(* SpecWalk: the loops of the scanners, one iteration a step.  res holds    *)
(* the loop's variables; st is "loop" while the loop goes on, and "done",   *)
(* "return" or "panic" once it has been left.                               *)
(***************************************************************************)
MaxWalkSections == 2

WalkInputs ==
    {Header \o b : b \in Bodies(MaxWalkSections)} \cup BigModules
    \cup RawStrings(MaxRaw) \cup FieldSamples \cup HeaderCuts
    \cup {TwoStructsBinary}

\* faulty variant of next_section_start (C28): the position is put back in
\* front of the size
next_section_start_back(j, size) == j - 2

\* line 773: i = j + size as usize
next_section_start(j, size) == j + AsUsize(size)

\* lines 710-719 of inject_datacount_section: the state before the walk
inject_walk_start(binary) ==
    [st |-> IF Len(binary) < HeaderLen \/ SubSeq(binary, 1, 4) # Magic
            THEN "return" ELSE "loop",
     pos |-> HeaderLen, count |-> Zero32, offset |-> NoOffset]

\* lines 721-777: the loop condition and one iteration of the section walk
inject_walk_step(binary, w, checks) ==
    IF w.pos >= Len(binary) THEN [w EXCEPT !.st = "done"]
    ELSE LET section_id == binary[w.pos + 1] IN
         IF section_id = DatacountId THEN [w EXCEPT !.st = "return"]
         ELSE LET sz == size_loop(binary, w.pos + 1, Zero32, 0, checks) IN
              IF sz.st = "eof" THEN [w EXCEPT !.st = "return"]
              ELSE IF sz.st = "panic" THEN [w EXCEPT !.st = "panic"]
              ELSE LET cnt == IF section_id = DataId
                              THEN count_loop(binary, sz.j, sz.j + AsUsize(sz.size),
                                              Zero32, 0, checks)
                              ELSE [st |-> "ok", count |-> w.count]
                       i2 == next_section_start(sz.j, sz.size)
                   IN  IF cnt.st = "panic" THEN [w EXCEPT !.st = "panic"]
                       ELSE [st |-> IF i2 >= Len(binary) \/ i2 > ScanLimit
                                    THEN "done" ELSE "loop",
                             pos |-> i2,
                             count |-> cnt.count,
                             offset |-> IF section_id = CodeId /\ w.offset = NoOffset
                                        THEN w.pos ELSE w.offset]

\* lines 998-1003 of parse_name_section: the state before the walk
name_walk_start(wasm_binary) ==
    [st |-> IF Len(wasm_binary) < HeaderLen THEN "return" ELSE "loop",
     pos |-> HeaderLen, inner |-> FALSE, section_end |-> 0, map |-> EmptyMap]

\* lines 1005-1067: one iteration of the section loop (inner is FALSE) or of
\* the subsection loop (inner is TRUE), with the loop's condition
name_walk_step(wasm_binary, w) ==
    LET stop(s) == [w EXCEPT !.st = s]
        n == Len(wasm_binary)
    IN
    IF ~w.inner
    THEN IF w.pos >= n \/ w.pos + 1 >= n THEN stop("done")
         ELSE LET section_id == wasm_binary[w.pos + 1]
                  section_size == read_leb128_u32(From(wasm_binary, w.pos + 1))
                  pos1 == w.pos + 1 + section_size.len
                  section_end == pos1 + AsUsize(section_size.value)
                  name_len == read_leb128_u32(From(wasm_binary, pos1))
                  pos2 == pos1 + name_len.len
                  len == AsUsize(name_len.value)
              IN  IF section_id # CustomId THEN [w EXCEPT !.pos = section_end]
                  ELSE IF section_end > n THEN stop("done")
                  ELSE IF pos2 + len > n THEN stop("done")
                  ELSE IF Slice(wasm_binary, pos2, pos2 + len) = NameBytes
                  THEN [w EXCEPT !.pos = pos2 + len, !.inner = TRUE,
                                 !.section_end = section_end]
                  ELSE [w EXCEPT !.pos = section_end]
    ELSE IF w.pos >= w.section_end \/ w.pos + 1 >= w.section_end THEN stop("done")
         ELSE LET subsection_id == wasm_binary[w.pos + 1]
                  subsection_size == read_leb128_u32(From(wasm_binary, w.pos + 1))
                  pos1 == w.pos + 1 + subsection_size.len
                  subsection_end == pos1 + AsUsize(subsection_size.value)
              IN  IF subsection_id # FieldNamesId THEN [w EXCEPT !.pos = subsection_end]
                  ELSE IF subsection_end > n THEN stop("panic")
                  ELSE [w EXCEPT !.pos = subsection_end,
                                 !.map = parse_field_names_subsection(
                                             Slice(wasm_binary, pos1, subsection_end))]

\* lines 1083-1086 of parse_field_names_subsection: the state before the
\* loops.  types and fields are the iterations the two for loops have left.
field_walk_start(data) ==
    LET type_count == read_leb128_u32(data)
    IN  [st |-> "loop", pos |-> type_count.len, inner |-> FALSE,
         types |-> AsUsize(type_count.value), fields |-> 0,
         type_idx |-> Zero32, names |-> <<>>, map |-> EmptyMap]

\* lines 1088-1131: one iteration of the type loop up to its field loop
\* (inner is FALSE), or one iteration of the field loop (inner is TRUE); the
\* field loop's exit inserts the names and goes back to the type loop
field_walk_step(data, w) ==
    LET insert == [w EXCEPT !.inner = FALSE,
                            !.map = MapInsert(w.map, w.type_idx, w.names)]
    IN
    IF ~w.inner
    THEN IF w.types = 0 \/ w.pos >= Len(data) THEN [w EXCEPT !.st = "done"]
         ELSE LET type_idx == read_leb128_u32(From(data, w.pos))
                  pos1 == w.pos + type_idx.len
                  field_count == read_leb128_u32(From(data, pos1))
              IN  [w EXCEPT !.pos = pos1 + field_count.len, !.inner = TRUE,
                            !.types = @ - 1,
                            !.fields = AsUsize(field_count.value),
                            !.type_idx = type_idx.value, !.names = <<>>]
    ELSE IF w.fields = 0 \/ w.pos >= Len(data) THEN insert
         ELSE LET field_idx == read_leb128_u32(From(data, w.pos))
                  pos1 == w.pos + field_idx.len
                  name_len == read_leb128_u32(From(data, pos1))
                  pos2 == pos1 + name_len.len
                  len == AsUsize(name_len.value)
                  name_bytes == Slice(data, pos2, pos2 + len)
              IN  IF pos2 + len > Len(data) THEN [insert EXCEPT !.pos = pos2]
                  ELSE [w EXCEPT !.pos = pos2 + len, !.fields = @ - 1,
                                 !.names = IF IsUtf8(name_bytes)
                                           THEN Append(w.names, name_bytes)
                                           ELSE w.names]

InitWalk ==
    /\ InitCalls
    /\ buf = <<>>
    /\ op = "init"
    /\ res = [kind |-> "none"]
    /\ InitPage

\* a scanner is called on a buffer
WalkStart ==
    /\ op = "init"
    /\ buf' \in WalkInputs
    /\ \/ op' = "inject_walk" /\ res' = inject_walk_start(buf')
       \/ op' = "name_walk" /\ res' = name_walk_start(buf')
       \/ op' = "field_walk" /\ res' = field_walk_start(buf')
    /\ UNCHANGED <<cacheVars, callVars, histVars, nfresh, debug, page>>

\* the loop's variables after the loop condition and one iteration
walk_step(scanner, binary, w, checks) ==
    CASE scanner = "inject_walk" -> inject_walk_step(binary, w, checks)
      [] scanner = "name_walk" -> name_walk_step(binary, w)
      [] scanner = "field_walk" -> field_walk_step(binary, w)

\* the loop of the scanner goes through one iteration
WalkStep ==
    /\ op # "init"
    /\ res.st = "loop"
    /\ res' = walk_step(op, buf, res, debug)
    /\ UNCHANGED <<cacheVars, callVars, histVars, nfresh, debug, buf, op, page>>

NextWalk == WalkStart \/ WalkStep

\* ENABLED <<WalkStep>>_vars, written out: the loop is running and the
\* iteration changes its variables
WalkStepEnabled ==
    op # "init" /\ res.st = "loop" /\ walk_step(op, buf, res, debug) # res

\* WF_vars(WalkStep), with its ENABLED written out: a thread inside a scanner
\* keeps running it.  Whether a scanner is called at all is the caller's
\* choice.
WalkFairness == []<>(~WalkStepEnabled) \/ []<><<WalkStep>>_vars

SpecWalk == InitWalk /\ [][NextWalk]_vars /\ WalkFairness

(***************************************************************************)
(* SpecText: the functions over source text applied to one input each: the  *)
(* type-lowering pass, the source-text metadata scan and the metadata built *)
(* from a field-name map.  The inputs are modules assembled from            *)
(* declarations.                                                            *)
(***************************************************************************)
MaxBlocks == 2

\*   (type $Box (struct (field $val (mut string))))
StringFieldBlock ==
    <<32, 32, 40, 116, 121, 112, 101, 32, 36, 66, 111, 120, 32, 40, 115,
      116, 114, 117, 99, 116, 32, 40, 102, 105, 101, 108, 100, 32, 36, 118,
      97, 108, 32, 40, 109, 117, 116, 32, 115, 116, 114, 105, 110, 103, 41,
      41, 41, 41>>

\*   (global $box (export "box") (ref $Box) (struct.new $Box "hello"))
LiteralBlock ==
    <<32, 32, 40, 103, 108, 111, 98, 97, 108, 32, 36, 98, 111, 120, 32, 40,
      101, 120, 112, 111, 114, 116, 32, 34, 98, 111, 120, 34, 41, 32, 40,
      114, 101, 102, 32, 36, 66, 111, 120, 41, 32, 40, 115, 116, 114, 117,
      99, 116, 46, 110, 101, 119, 32, 36, 66, 111, 120, 32, 34, 104, 101,
      108, 108, 111, 34, 41, 41>>

\*   (type $string (array (mut i8)))
StringDeclBlock ==
    <<32, 32, 40, 116, 121, 112, 101, 32, 36, 115, 116, 114, 105, 110, 103,
      32, 40, 97, 114, 114, 97, 121, 32, 40, 109, 117, 116, 32, 105, 56,
      41, 41, 41>>

\*   (func (param i32))
FuncBlock ==
    <<32, 32, 40, 102, 117, 110, 99, 32, 40, 112, 97, 114, 97, 109, 32,
      105, 51, 50, 41, 41>>

\*   (func (param string) (result string))
StringFuncBlock ==
    <<32, 32, 40, 102, 117, 110, 99, 32, 40, 112, 97, 114, 97, 109, 32,
      115, 116, 114, 105, 110, 103, 41, 32, 40, 114, 101, 115, 117, 108,
      116, 32, 115, 116, 114, 105, 110, 103, 41, 41>>

\*   ;; note
CommentBlock ==
    <<32, 32, 59, 59, 32, 110, 111, 116, 101>>

\*   (type $Box (struct (field $val (mut i32))))
BoxBlock ==
    <<32, 32, 40, 116, 121, 112, 101, 32, 36, 66, 111, 120, 32, 40, 115,
      116, 114, 117, 99, 116, 32, 40, 102, 105, 101, 108, 100, 32, 36, 118,
      97, 108, 32, 40, 109, 117, 116, 32, 105, 51, 50, 41, 41, 41, 41>>

\*   (type $P (struct (field $x i32) (field $y i32)))
PairBlock ==
    <<32, 32, 40, 116, 121, 112, 101, 32, 36, 80, 32, 40, 115, 116, 114,
      117, 99, 116, 32, 40, 102, 105, 101, 108, 100, 32, 36, 120, 32, 105,
      51, 50, 41, 32, 40, 102, 105, 101, 108, 100, 32, 36, 121, 32, 105,
      51, 50, 41, 41, 41>>

\*   (type $Q (struct
\*     (field $a i32)
\*     (field $b i32)
\*   ))
SplitBlock ==
    <<32, 32, 40, 116, 121, 112, 101, 32, 36, 81, 32, 40, 115, 116, 114,
      117, 99, 116, 10, 32, 32, 32, 32, 40, 102, 105, 101, 108, 100, 32,
      36, 97, 32, 105, 51, 50, 41, 10, 32, 32, 32, 32, 40, 102, 105, 101,
      108, 100, 32, 36, 98, 32, 105, 51, 50, 41, 10, 32, 32, 41, 41>>

EmptyLine == <<>>

BlockPool ==
    {StringFieldBlock, LiteralBlock, StringDeclBlock, FuncBlock,
     StringFuncBlock, CommentBlock, BoxBlock, PairBlock, SplitBlock, EmptyLine}

\* up to n declarations, each on lines of its own
RECURSIVE TextBodies(_)
TextBodies(n) ==
    IF n = 0 THEN {<<>>}
    ELSE LET shorter == TextBodies(n - 1)
         IN  shorter \cup {b \o blk \o Newline : b \in shorter, blk \in BlockPool}

\* (module, the declarations, ) with no newline after it; and the
\* declarations alone
TextInputs ==
    {ModuleOpen \o Newline \o b \o <<41>> : b \in TextBodies(MaxBlocks)}
    \cup TextBodies(MaxBlocks)

\* field-name maps as parse_name_section yields them
NameMaps ==
    {MapInsert(EmptyMap, Zero32, <<<<118, 97, 108>>>>),
     MapInsert(MapInsert(EmptyMap, Zero32, <<<<120>>>>),
               [hi |-> 0, lo |-> 1], <<<<121>>>>)}

InitText ==
    /\ InitCalls
    /\ buf \in TextInputs
    /\ op = "init"
    /\ res = [kind |-> "none"]
    /\ InitPage

DoLower ==
    /\ ScanDone("lower")
    /\ res' = transform_string_types(buf)

DoFirstTypeName ==
    /\ ScanDone("typename")
    /\ res' = extract_first_type_name(buf)

DoWatFieldNames ==
    /\ ScanDone("watfields")
    /\ res' \in parse_wat_field_names(buf)

DoAugment ==
    /\ ScanDone("augment")
    /\ \E m \in NameMaps : res' \in augment_with_type_name(buf, m)

\* lines 85-94 of compile_wat_to_js, for every field-name map the name
\* section can give, the empty one included
DoFieldNamesJson ==
    /\ ScanDone("fieldnames")
    /\ \E m \in NameMaps \cup {EmptyMap} :
           \E json \in field_names_json(buf, m) :
               res' = [map |-> m, json |-> json]

NextText ==
    \/ DoLower
    \/ DoFieldNamesJson
    \/ DoFirstTypeName
    \/ DoWatFieldNames
    \/ DoAugment

SpecText == InitText /\ [][NextText]_vars

(***************************************************************************)
(* SpecHost: a page that runs generated scripts, each the output of one     *)
(* compile_wat_to_js call.  A script runs to its end in one step: it starts *)
(* WebAssembly.instantiate (line 139) and, when it has a listener part      *)
(* (lines 550-558), registers it on window for the event wasmloaded.  The   *)
(* promise is settled later: its then callback (lines 140-537) installs the *)
(* exports and the field names and dispatches wasmloaded on window (line    *)
(* 536); its catch callback (lines 538-540) logs.  dispatchEvent runs every *)
(* listener registered on window for the event, in the same step.          *)
(***************************************************************************)
Callbacks == {NoCallback, BlankCallback, GoCallback}

\* the script of adapter a, generated with callback, is run by the page
RunAdapter(a, callback) ==
    /\ page[a].phase = "none"
    /\ page' = [page EXCEPT ![a] =
           [phase |-> "pending",
            listener |-> generate_js(Header, EmptyJson, callback).listener,
            runs |-> 0, early |-> FALSE]]
    /\ UNCHANGED <<cacheVars, callVars, histVars, nfresh, debug, buf, op, res>>

\* window.dispatchEvent(new Event('wasmloaded')) with adapter a just loaded:
\* every registered listener runs its snippet
dispatch_wasmloaded(pg, a) ==
    [b \in Adapters |->
        LET phase == IF b = a THEN "loaded" ELSE pg[b].phase
        IN  IF pg[b].listener = NoCallback
            THEN [pg[b] EXCEPT !.phase = phase]
            ELSE [pg[b] EXCEPT !.phase = phase,
                               !.runs = @ + 1,
                               !.early = @ \/ phase # "loaded"]]

\* lines 140-537: the promise of adapter a is fulfilled
InstantiateThen(a) ==
    /\ page[a].phase = "pending"
    /\ page' = dispatch_wasmloaded(page, a)
    /\ UNCHANGED <<cacheVars, callVars, histVars, nfresh, debug, buf, op, res>>

\* lines 538-540: the promise of adapter a is rejected, or its then callback
\* threw before the dispatch
InstantiateCatch(a) ==
    /\ page[a].phase = "pending"
    /\ page' = [page EXCEPT ![a].phase = "failed"]
    /\ UNCHANGED <<cacheVars, callVars, histVars, nfresh, debug, buf, op, res>>

NextHost ==
    \/ \E a \in Adapters, callback \in Callbacks : RunAdapter(a, callback)
    \/ \E a \in Adapters : InstantiateThen(a)
    \/ \E a \in Adapters : InstantiateCatch(a)

SpecHost == Init /\ [][NextHost]_vars

(***************************************************************************)
(* Properties of the cache under concurrent callers (Spec).                *)
(***************************************************************************)
\* the outcome recorded for a call that has returned
Returned(t) == pc[t] = "idle" /\ ret[t] # NoResult

HasMagic(b) == Len(b) >= 4 /\ SubSeq(b, 1, 4) = <<0, 97, 115, 109>>

\* the text is neither a binary module nor accepted by the encoder
Unparsable(text) ==
    /\ ~HasMagic(text)
    /\ ~wat_parse_str(text).ok

CompiledFrom(id) == compile_wat_internal(SourceText(id), "", debug).binary

\* C8 as stated: a binary handed to a call was compiled from that call's own
\* source, so a hit never returns the binary of a different source.
C8_HitReturnsOwnSource ==
    \A t \in Threads : pc[t] = "emit" => from[t] = req[t].source

\* C8 amended: entries are keyed by the fingerprint alone.  Every entry is
\* stored under the fingerprint of the source it was compiled from, and a
\* binary handed to a call was compiled from a source with the same
\* fingerprint as the call's source.
C8_HitReturnsSameFingerprint ==
    /\ \A k \in DOMAIN cache :
           /\ calculate_hash(SourceText(origin[k])) = k
           /\ cache[k] = CompiledFrom(origin[k])
    /\ \A t \in Threads :
           pc[t] = "emit" =>
               /\ calculate_hash(SourceText(from[t]))
                      = calculate_hash(SourceText(req[t].source))
               /\ bin[t] = CompiledFrom(from[t])

\* C8: a lookup hit the entry stored by a different source
C8_Witness ==
    \E t \in Threads :
        /\ pc[t] = "emit"
        /\ ~encoded[t]
        /\ from[t] # req[t].source

\* C9: when two callers compile the same source and both miss and both run
\* the encoder, then once both have returned the cache holds one entry for
\* the fingerprint and its value is the binary of the call that stored last.
C9_LastWriteWins ==
    \A t1 \in Threads : \A t2 \in Threads \ {t1} :
        (/\ Returned(t1) /\ Returned(t2)
         /\ req[t1].source = req[t2].source
         /\ encoded[t1] /\ encoded[t2]
         /\ wrote[t1] /\ wrote[t2]
         /\ lastStorer \in {t1, t2}) =>
            /\ cache_key(t1) \in DOMAIN cache
            /\ origin[cache_key(t1)] = req[lastStorer].source
            /\ ret[lastStorer].js.byte_array
                   = [i \in DOMAIN cache[cache_key(t1)] |->
                          Hex2(cache[cache_key(t1)][i])]

\* C9: one caller has stored and returned, the other has missed the same
\* source, run the encoder and is about to store over the first one's entry
C9_Witness ==
    \E t1 \in Threads : \E t2 \in Threads \ {t1} :
        /\ Returned(t1) /\ encoded[t1] /\ wrote[t1]
        /\ pc[t2] = "write" /\ encoded[t2]
        /\ req[t1].source = req[t2].source
        /\ lastStorer = t1
        /\ cache_key(t2) \in DOMAIN cache

\* C10: a caller that is compiling holds neither the read lock nor the
\* write lock.
C10_NoLockWhileCompiling ==
    \A t \in Threads :
        pc[t] \in {"miss", "compiled"} => t \notin readers /\ writer # t

\* C10: one caller is compiling while another holds the write lock
C10_Witness ==
    \E t1 \in Threads : \E t2 \in Threads \ {t1} :
        /\ pc[t1] = "miss"
        /\ writer = t2
        /\ pc[t2] = "write"

(***************************************************************************)
(* Properties of one caller's call sequences (SpecSeq, SpecFill).          *)
(***************************************************************************)
\* C1: when a call repeats the call before it (same source) with no clear
\* and no other store in between, it returns the same output as the first
\* call and does not invoke the encoder.
C1_RepeatIsIdentical ==
    (Returned(Caller) /\ expect) =>
        /\ ret[Caller] = prev.res
        /\ ~encoded[Caller]

\* C6: the cache never holds more than 100 entries.
C6_AtMostHundred == Cardinality(DOMAIN cache) <= 100

\* C7: right after the 101st insertion of pairwise distinct sources into a
\* cache that started empty, the cache holds exactly one entry.
C7_OneEntryAfter101 ==
    (nfresh = 101 /\ pc[Caller] = "emit" /\ wrote[Caller]) =>
        Cardinality(DOMAIN cache) = 1

(***************************************************************************)
(* Properties of the byte scanners and the compilation step (SpecScan).    *)
(* The layout of a binary module is taken from the format: after the       *)
(* 8-byte header, sections of an id byte, a LEB128 size of at most five    *)
(* bytes and that many payload bytes, up to the end of the buffer.         *)
(***************************************************************************)
\* the LEB128 number at offset pos ends within five bytes
Terminated(b, pos) ==
    LET r == read_leb128_u32(From(b, pos))
    IN  r.len > 0 /\ b[pos + r.len] < 128

Width(b, pos) == read_leb128_u32(From(b, pos)).len

Number(b, pos) == read_leb128_u32(From(b, pos)).value

RECURSIVE SectionsFrom(_, _)
SectionsFrom(b, pos) ==
    IF pos = Len(b) THEN [ok |-> TRUE, secs |-> <<>>]
    ELSE IF pos + 1 >= Len(b) \/ ~Terminated(b, pos + 1)
    THEN [ok |-> FALSE, secs |-> <<>>]
    ELSE LET body == pos + 1 + Width(b, pos + 1)
             end == body + AsUsize(Number(b, pos + 1))
         IN  IF end > Len(b) THEN [ok |-> FALSE, secs |-> <<>>]
             ELSE LET rest == SectionsFrom(b, end)
                  IN  [ok |-> rest.ok,
                       secs |-> <<[id |-> b[pos + 1], at |-> pos,
                                   body |-> body, end |-> end]>> \o rest.secs]

SectionsOf(b) == SectionsFrom(b, 8).secs

WithId(b, id) == {k \in DOMAIN SectionsOf(b) : SectionsOf(b)[k].id = id}

\* a binary module: header, sections filling the buffer, no section other
\* than a custom one twice
IsModule(b) ==
    /\ HasMagic(b) /\ Len(b) >= 8
    /\ LET all == SectionsFrom(b, 8)
       IN  /\ all.ok
           /\ \A i, j \in DOMAIN all.secs :
                  (all.secs[i].id = all.secs[j].id /\ all.secs[i].id # 0) => i = j

\* the data section starts with a segment count
HasSegmentCount(b) ==
    \A k \in WithId(b, 11) :
        LET sec == SectionsOf(b)[k]
        IN  /\ sec.body < sec.end
            /\ Terminated(b, sec.body)
            /\ sec.body + Width(b, sec.body) <= sec.end

\* N, the number of data segments the module declares
DataSegments(b) ==
    IF WithId(b, 11) = {} THEN Zero32
    ELSE Number(b, SectionsOf(b)[CHOOSE k \in WithId(b, 11) : TRUE].body)

\* out is b with one section of id 12 holding n put right before b's code
\* section
InjectedBeforeCode(b, out, n) ==
    \E k \in WithId(b, 10) :
        LET p == SectionsOf(b)[k].at
        IN  /\ Len(out) > Len(b) + 2
            /\ SubSeq(out, 1, p) = SubSeq(b, 1, p)
            /\ out[p + 1] = 12
            /\ Terminated(out, p + 1)
            /\ LET body == p + 1 + Width(out, p + 1)
                   end == body + AsUsize(Number(out, p + 1))
               IN  /\ end <= Len(out)
                   /\ Terminated(out, body)
                   /\ body + Width(out, body) = end
                   /\ Number(out, body) = n
                   /\ From(out, end) = From(b, p)

\* C2 as stated: for an input starting with the magic prefix the compilation
\* step's binary is the input, and the encoder is not invoked.
C2_PassThroughUnchanged ==
    (op = "compile" /\ HasMagic(buf) /\ res.kind = "ok") =>
        res.binary = buf /\ ~res.encoder

\* C2 amended: for an input starting with the magic prefix the encoder is not
\* invoked and no ParseError is returned; the binary produced is the input,
\* or the input with one section of id 12 spliced in at the offset of a
\* section of id 10 and nothing else changed.
C2_PassThroughUpToDatacount ==
    (op = "compile" /\ HasMagic(buf)) =>
        /\ ~res.encoder
        /\ res.kind # "err"
        /\ res.kind = "ok" =>
               \/ res.binary = buf
               \/ \E p \in HeaderLen..Len(buf) - 1 : \E n \in 1..5 :
                      /\ buf[p + 1] = 10
                      /\ Len(res.binary) = Len(buf) + 2 + n
                      /\ SubSeq(res.binary, 1, p) = SubSeq(buf, 1, p)
                      /\ res.binary[p + 1] = 12
                      /\ res.binary[p + 2] = n
                      /\ From(res.binary, p + 2 + n) = From(buf, p)

\* C2: a binary input came out of the compilation step with a section added
C2_Witness ==
    /\ op = "compile"
    /\ HasMagic(buf)
    /\ res.kind = "ok"
    /\ ~res.encoder
    /\ res.binary # buf

\* C3: for a binary module with a data section declaring N > 0 segments, a
\* code section and no section of id 12, inject_datacount_section yields the
\* module with one section of id 12 holding N right before the code section;
\* for a module declaring no data segments it yields the module as it was.
C3_DatacountInjected ==
    (/\ op = "inject"
     /\ IsModule(buf)
     /\ HasSegmentCount(buf)
     /\ WithId(buf, 12) = {}) =>
        /\ ~res.panic
        /\ IF DataSegments(buf) # Zero32 /\ WithId(buf, 10) # {}
           THEN /\ InjectedBeforeCode(buf, res.binary, DataSegments(buf))
                /\ IsModule(res.binary)
                /\ Cardinality(WithId(res.binary, 12)) = 1
           ELSE DataSegments(buf) = Zero32 => res.binary = buf

\* C4: the section scanners and the varint reader return normally on every
\* byte sequence.
C4_ScannersNeverPanic ==
    op \in {"inject", "names", "fields", "leb"} =>
        ("panic" \in DOMAIN res => ~res.panic)

(***************************************************************************)
(* Properties of the functions over source text (SpecText).                *)
(***************************************************************************)
\* (ref null $string)
RefNullString ==
    <<40, 114, 101, 102, 32, 110, 117, 108, 108, 32, 36, 115, 116, 114,
      105, 110, 103, 41>>

\* array.new_fixed $string
ArrayNewFixed ==
    <<97, 114, 114, 97, 121, 46, 110, 101, 119, 95, 102, 105, 120, 101,
      100, 32, 36, 115, 116, 114, 105, 110, 103>>

\* the number of (type $string declarations in a text
StringDecls(text) ==
    Cardinality({i \in 0..Len(text) : MatchAt(text, StringDecl, i)})

\* some line of the text has a quoted literal after struct.new
HasStructLiteral(text) ==
    \E k \in DOMAIN Lines(text) :
        LET line == Lines(text)[k]
            at == Find(line, StructNew)
        IN  at # -1 /\ Contains(From(line, at), Quote)

\* C11: when the source holds a (type $string declaration, the output of
\* transform_string_types holds as many as the input; and whatever the
\* source, running the pass on its own output adds no declaration.
C11_NoSecondDeclaration ==
    op = "lower" =>
        /\ StringDecls(buf) > 0 => StringDecls(res) = StringDecls(buf)
        /\ StringDecls(transform_string_types(res)) = StringDecls(res)

\* C11: a source that declares $string and uses the string type was lowered
C11_Witness ==
    /\ op = "lower"
    /\ StringDecls(buf) = 1
    /\ Contains(buf, MutString)
    /\ Contains(res, MutRefString)
    /\ StringDecls(res) = 1

\* C12: for a source without the word string and without a literal in a
\* struct.new, the output of transform_string_types is the input (up to the
\* newline the pass writes after the last line).
C12_NoStringNoChange ==
    (op = "lower" /\ ~Contains(buf, StringWord) /\ ~HasStructLiteral(buf)) =>
        (res = buf \/ res = buf \o Newline)

\* C17: for a module with a (mut string) field and a struct.new with a
\* quoted literal, the output of transform_string_types holds the $string
\* declaration, a (ref null $string) reference and an array.new_fixed $string
\* construction.
C17_LoweredToNewFixed ==
    (/\ op = "lower"
     /\ StartsWith(buf, ModuleOpen)
     /\ Contains(buf, MutString)
     /\ HasStructLiteral(buf)) =>
        /\ Contains(res, SubSeq(StringTypeLine, 3, Len(StringTypeLine) - 2))
        /\ Contains(res, RefNullString)
        /\ Contains(res, ArrayNewFixed)

(***************************************************************************)
(* The struct types a source text declares, read off the text itself:       *)
(* (type $name (struct (field $f ...) ...)), whatever the line breaks.      *)
(***************************************************************************)
\* the offset of the parenthesis closing the one opened before offset i
RECURSIVE CloseOf(_, _, _)
CloseOf(text, i, depth) ==
    IF i >= Len(text) THEN Len(text)
    ELSE IF text[i + 1] = 41
         THEN IF depth = 1 THEN i ELSE CloseOf(text, i + 1, depth - 1)
         ELSE CloseOf(text, i + 1, IF text[i + 1] = 40 THEN depth + 1 ELSE depth)

\* the name at offset i, up to white space or a parenthesis
NameAt(text, i) ==
    LET rest == From(text, i)
        end == FindIn(rest, Whitespace \cup {40, 41})
    IN  IF end = -1 THEN rest ELSE SubSeq(rest, 1, end)

\* the offset of the $ of the identifier following the keyword at offset i
\* (of length n), or -1 when none follows
IdentAfter(text, i, n) ==
    LET rest == From(text, i + n)
        skip == {k \in 0..Len(rest) - 1 : ~IsWhitespace(rest[k + 1])}
        first == IF skip = {} THEN -1
                 ELSE CHOOSE k \in skip : \A j \in skip : k <= j
    IN  IF first # -1 /\ rest[first + 1] = 36 THEN i + n + first ELSE -1

\* offsets of (struct keywords (not struct.new and the like)
StructStarts(text) ==
    {i \in 0..Len(text) - 8 :
        MatchAt(text, StructKw, i) /\ text[i + 8] \in Whitespace \cup {40, 41}}

\* the declaration whose (struct is at offset s: name without $, fields
StructDecl(text, s) ==
    LET types == {i \in 0..s : MatchAt(text, TypeKw, i)}
        ty == CHOOSE i \in types : \A j \in types : i >= j
        id == IdentAfter(text, ty, 5)
        end == CloseOf(text, s + 1, 1)
        marks == {i \in s..end : MatchAt(text, FieldKw, i)
                                 /\ IdentAfter(text, i, 6) # -1}
        order == CHOOSE f \in [1..Cardinality(marks) -> marks] :
                     \A a, b \in 1..Cardinality(marks) : a < b => f[a] < f[b]
    IN  [name |-> IF id = -1 THEN <<>> ELSE NameAt(text, id + 1),
         fields |-> [k \in 1..Cardinality(marks) |->
                        NameAt(text, IdentAfter(text, order[k], 6) + 1)]]

\* the struct declarations of a text and the first of them
StructDecls(text) == {StructDecl(text, s) : s \in StructStarts(text)}

FirstStruct(text) ==
    StructDecl(text, CHOOSE s \in StructStarts(text) :
                         \A r \in StructStarts(text) : s <= r)

\* every field declaration of the text is on a line of its own
OneFieldPerLine(text) ==
    \A k \in DOMAIN Lines(text) :
        LET line == Lines(text)[k]
            at == Find(line, FieldKw)
        IN  at = -1 \/ ~Contains(From(line, at + 1), FieldKw)

\* no two struct declarations of the text have the same name
DistinctStructNames(text) ==
    \A s, r \in StructStarts(text) :
        StructDecl(text, s).name = StructDecl(text, r).name => s = r

\* C13: the metadata describes the first struct type the source declares:
\* on the source-scan path typeName and fields are that type's; on the
\* name-section path typeName is that type's and fields are those the name
\* section gives for type 0.
C13_DefaultIsFirstStruct ==
    /\ (/\ op = "watfields"
        /\ StructStarts(buf) # {}
        /\ DistinctStructNames(buf)
        /\ OneFieldPerLine(buf)) =>
           res = DefaultJson(FirstStruct(buf).name, FirstStruct(buf).fields)
    /\ (op = "augment" /\ StructStarts(buf) # {}) =>
           /\ res.typeName = FirstStruct(buf).name
           /\ \E m \in NameMaps : res.fields = m[Zero32]

\* C14: the fields recorded by parse_wat_field_names for a struct type are
\* the fields that type declares, each once, in declaration order.
C14_FieldsInDeclarationOrder ==
    (op = "watfields" /\ res.kind = "default") =>
        \A d \in StructDecls(buf) :
            (/\ d.name = res.typeName
             /\ Cardinality({s \in StructStarts(buf) :
                                StructDecl(buf, s).name = d.name}) = 1) =>
                res.fields = d.fields

(***************************************************************************)
(* Properties of the varint reader (SpecScan).                              *)
(***************************************************************************)
\* the smallest member of a non-empty set of naturals
Least(S) == CHOOSE x \in S : \A y \in S : x <= y

\* bytes up to and including the first one without the continuation bit,
\* at most 5 and at most the length of the slice
Consumed(data) ==
    Least({5, Len(data)} \cup {k \in 1..Len(data) : data[k] < 128})

\* the sum over i < n of (data[i] & 0x7F) * 128^i
RECURSIVE GroupSum(_, _)
GroupSum(data, n) ==
    IF n = 0 THEN 0
    ELSE GroupSum(data, n - 1) + (data[n] % 128) * 128^(n - 1)

\* the low 32 bits of the sum of the 7-bit groups of the first n <= 5 bytes:
\* the first four groups fill bits 0..27, the fifth gives bits 28..31
LowBits(data, n) ==
    [hi |-> IF n = 5 THEN (data[5] % 128) % 16 ELSE 0,
     lo |-> GroupSum(data, IF n = 5 THEN 4 ELSE n)]

\* C15: read_leb128_u32 returns, for every slice, the number of bytes up to
\* and including the first one without the continuation bit, capped at 5 and
\* at the slice length (0 for the empty slice), and the low 32 bits of the
\* sum of the consumed 7-bit groups, group i shifted by 7 * i.
C15_VarintReader ==
    op = "leb" =>
        /\ res.len = Consumed(buf)
        /\ res.value = LowBits(buf, Consumed(buf))

\* six bytes with the continuation bit: five are consumed and the fifth
\* group loses its top three bits
C15_Witness ==
    /\ op = "leb"
    /\ Len(buf) = 6
    /\ \A k \in 1..6 : buf[k] = 255
    /\ res.len = 5
    /\ res.value = [hi |-> 15, lo |-> Pow28 - 1]

(***************************************************************************)
(* The order of the steps of a miss (Spec).                                 *)
(***************************************************************************)
\* what wat::parse_str makes of the text of caller t's request as given
EncoderOutput(t) == wat_parse_str(SourceText(req[t].source))

\* out is the encoder's binary b after the augmenter: b itself when it
\* declares no data segment, else b with the segment count put before the
\* code section
Augmented(b, out) ==
    IF WithId(b, 11) = {} \/ WithId(b, 12) # {} \/ WithId(b, 10) = {}
    THEN out = b
    ELSE InjectedBeforeCode(b, out, DataSegments(b))

\* caller t's step stores into the cache
StoreStep(t) == ~wrote[t] /\ wrote'[t]

\* C16 as stated, its last part: the cache store comes last, after the
\* binding generator has produced the adapter code.
C16_StoreComesLast ==
    [][\A t \in Threads : StoreStep(t) => ret[t].kind = "ok"]_vars

\* C16 amended: on a miss the encoder receives the source text as given (no
\* lowering pass runs), the augmenter runs on the encoder's output, then the
\* cache store, and only then the metadata extractor and the binding
\* generator, which work on the binary that was stored.
C16_StoreBeforeMetadata ==
    [][\A t \in Threads :
          /\ (pc[t] = "miss" /\ pc'[t] = "compiled") =>
                 /\ encoded'[t]
                 /\ EncoderOutput(t).ok
                 /\ Augmented(EncoderOutput(t).binary, bin'[t])
          /\ StoreStep(t) =>
                 /\ encoded[t]
                 /\ ret[t] = NoResult /\ ret'[t] = NoResult
                 /\ cache'[cache_key(t)] = bin[t]
                 /\ Augmented(EncoderOutput(t).binary, bin[t])
          /\ (encoded[t] /\ ret[t] = NoResult /\ ret'[t].kind = "ok") =>
                 /\ wrote[t]
                 /\ Len(ret'[t].js.byte_array) = Len(bin[t])
      ]_vars

\* C16: a caller has compiled, augmented and stored its binary and has not
\* yet extracted the metadata or generated the adapter code
C16_Witness ==
    \E t \in Threads :
        /\ pc[t] = "emit"
        /\ encoded[t] /\ wrote[t]
        /\ ret[t] = NoResult
        /\ cache_key(t) \in DOMAIN cache
        /\ EncoderOutput(t).ok
        /\ Len(bin[t]) > Len(EncoderOutput(t).binary)

(***************************************************************************)
(* The text that carries the binary (SpecSeq).                              *)
(***************************************************************************)
WebAssemblyWord ==                                      \* "WebAssembly"
    <<87, 101, 98, 65, 115, 115, 101, 109, 98, 108, 121>>

DataUrlPrefix ==                        \* "data:application/wasm;base64,"
    <<100, 97, 116, 97, 58, 97, 112, 112, 108, 105, 99, 97, 116, 105, 111,
      110, 47, 119, 97, 115, 109, 59, 98, 97, 115, 101, 54, 52, 44>>

\* C18: for every source that compiles successfully the returned text
\* references WebAssembly and carries the binary as a base64 data URL: it
\* contains data:application/wasm;base64,
C18_CarriesDataUrl ==
    ret[Caller].kind = "ok" =>
        /\ Contains(ret[Caller].js.loader, WebAssemblyWord)
        /\ Contains(ret[Caller].js.loader, DataUrlPrefix)

(***************************************************************************)
(* clear_cache (SpecSeq).                                                   *)
(***************************************************************************)
\* the caller's step is the body of clear_cache
ClearStep == pc[Caller] = "clearing" /\ pc'[Caller] = "idle"

\* the caller's step is the cache lookup of compile_wat_to_js
LookupStep == pc[Caller] = "read" /\ pc'[Caller] # "read"

\* the caller's step is the compilation step of a miss
CompileStep == pc[Caller] = "miss" /\ pc'[Caller] # "miss"

\* C19: clear_cache leaves the cache with zero entries, and the next lookup,
\* of whatever source, with no store since the clear, is a miss; the miss
\* runs the compilation step, which invokes the encoder for a textual source.
C19_ClearForcesMiss ==
    [][/\ ClearStep => Cardinality(DOMAIN cache') = 0
       /\ (LookupStep /\ ~quiet) => pc'[Caller] = "miss"
       /\ (CompileStep /\ ~IsBinaryWasm(SourceText(req[Caller].source))) =>
              encoded'[Caller]
      ]_vars

\* C19: the call before returned Ok for the same source, which was then in
\* the cache; the cache was cleared, and this call has compiled the source
\* again with the encoder
C19_Witness ==
    /\ prev.req = req[Caller]
    /\ prev.res.kind = "ok"
    /\ ~quiet
    /\ pc[Caller] = "compiled"
    /\ encoded[Caller]

(***************************************************************************)
(* The eviction (SpecFill).                                                 *)
(***************************************************************************)
\* the caller's step is the block of lines 71-78 under the write guard
WriteStep == pc[Caller] = "write" /\ pc'[Caller] = "emit"

Occurrences(text, pattern) ==
    {i \in 0..Len(text) : MatchAt(text, pattern, i)}

\* the identifier of the data declaration at offset i
DataIdAt(text, i) == NameAt(text, i + Len(DataOpen))

\* one declaration per replaced literal, with pairwise distinct identifiers
OneDataPerLiteral(text) ==
    /\ Cardinality(Occurrences(text, DataOpen))
           = Cardinality(Occurrences(text, ArrayNewData))
    /\ \A i, j \in Occurrences(text, DataOpen) :
           DataIdAt(text, i) = DataIdAt(text, j) => i = j

\* the offset of the parenthesis closing the one the text starts with: the
\* first offset at which as many have been closed as opened (the length of
\* the text when there is none)
ModuleClose(text) ==
    Least({Len(text)} \cup
          {i \in 0..Len(text) - 1 :
              /\ text[i + 1] = 41
              /\ Cardinality({k \in 1..i + 1 : text[k] = 40})
                     = Cardinality({k \in 1..i + 1 : text[k] = 41})})

\* C21: the lowered text of a module holds one data declaration per
\* replaced literal, with pairwise distinct identifiers, each of them before
\* the parenthesis that closes the module.
C21_DataInsideModule ==
    (op = "lower" /\ StartsWith(buf, ModuleKw)) =>
        /\ OneDataPerLiteral(res)
        /\ \A i \in Occurrences(res, DataOpen) : i < ModuleClose(res)

(***************************************************************************)
(* The datacount injection, case by case (SpecScan).                        *)
(***************************************************************************)
\* the module's code section comes before its data section
CodeBeforeData(b) ==
    \E c \in WithId(b, 10) : \E d \in WithId(b, 11) : c < d

\* the data section starts within the reach of the section walk
DataWithinLimit(b) ==
    \A d \in WithId(b, 11) : SectionsOf(b)[d].at <= ScanLimit

\* C22 as stated: when the code section comes before the data section, no
\* injection is performed.
C22_CodeFirstNoInjection ==
    (op = "inject" /\ IsModule(buf) /\ CodeBeforeData(buf)) =>
        res.binary = buf

\* C22 amended: when the code section comes before the data section, the
\* walk goes on past the code section: for a module without a section of id
\* 12 whose data section starts within the first 10000 bytes and declares
\* N > 0 segments, the section of id 12 holding N is put at the code
\* section's offset.
C22_CodeFirstStillInjected ==
    (/\ op = "inject"
     /\ IsModule(buf)
     /\ HasSegmentCount(buf)
     /\ CodeBeforeData(buf)
     /\ DataWithinLimit(buf)
     /\ WithId(buf, 12) = {}
     /\ DataSegments(buf) # Zero32) =>
        /\ ~res.panic
        /\ InjectedBeforeCode(buf, res.binary, DataSegments(buf))

\* C22: a module with the code section first came back with the section
\* added
C22_Witness ==
    /\ op = "inject"
    /\ IsModule(buf)
    /\ CodeBeforeData(buf)
    /\ WithId(buf, 12) = {}
    /\ ~res.panic
    /\ Len(res.binary) = Len(buf) + 3
    /\ res.binary[SectionsOf(buf)[CHOOSE c \in WithId(buf, 10) : TRUE].at + 1]
           = DatacountId

\* C23: inject_datacount_section always returns, and it modifies the buffer
\* only when the header is there and the module declares N > 0 data
\* segments, has no section of id 12 and has a code section; a buffer
\* without the header, and a module with a section of id 12, without data
\* segments or without a code section, is left as it was.
C23_ModifiedOnlyWhen ==
    op = "inject" =>
        /\ ~res.panic
        /\ (Len(buf) < HeaderLen \/ ~HasMagic(buf)) => res.binary = buf
        /\ (IsModule(buf) /\ HasSegmentCount(buf) /\ res.binary # buf) =>
               /\ DataSegments(buf) # Zero32
               /\ WithId(buf, 12) = {}
               /\ WithId(buf, 10) # {}

\* out is b with the section (12, n, e) spliced in at offset p, where the n
\* bytes e are a LEB128 number that read_leb128_u32 reads in full
SplicedAt(b, out, p, n) ==
    /\ Len(out) = Len(b) + 2 + n
    /\ SubSeq(out, 1, p) = SubSeq(b, 1, p)
    /\ out[p + 1] = 12
    /\ out[p + 2] = n
    /\ Terminated(out, p + 2)
    /\ Width(out, p + 2) = n
    /\ From(out, p + 2 + n) = From(b, p)

\* C24: when inject_datacount_section changes the buffer, the result is the
\* input with (12, len(enc(N)), enc(N)) spliced in at the offset p of a
\* section of id 10: the bytes before p and the bytes from p on are the
\* input's, and enc(N) is read back by read_leb128_u32 as N, the count of the
\* module's data section.
C24_SplicedExactly ==
    (op = "inject" /\ ~res.panic /\ res.binary # buf) =>
        \E p \in HeaderLen..Len(buf) - 1 : \E n \in 1..5 :
            /\ buf[p + 1] = 10
            /\ SplicedAt(buf, res.binary, p, n)
            /\ Number(res.binary, p + 2) # Zero32
            /\ (IsModule(buf) /\ HasSegmentCount(buf)) =>
                   /\ p = SectionsOf(buf)[CHOOSE c \in WithId(buf, 10) : TRUE].at
                   /\ Number(res.binary, p + 2) = DataSegments(buf)

\* C24: a module declaring 200 segments came back with 0C 02 C8 01 at the
\* offset of its code section
C24_Witness ==
    /\ op = "inject"
    /\ IsModule(buf)
    /\ DataSegments(buf) = [hi |-> 0, lo |-> 200]
    /\ \E p \in HeaderLen..Len(buf) - 1 :
           /\ buf[p + 1] = 10
           /\ SubSeq(res.binary, p + 1, p + 4) = <<12, 2, 200, 1>>
           /\ Len(res.binary) = Len(buf) + 4

\* C25: applying inject_datacount_section to its own result changes
\* nothing, and a module without a section of id 12 has at most one after
\* the two applications.
C25_InjectionIdempotent ==
    (op = "inject2" /\ ~res.first.panic) =>
        /\ ~res.second.panic
        /\ res.second.binary = res.first.binary
        /\ (IsModule(buf) /\ WithId(buf, 12) = {}) =>
               Cardinality(WithId(res.second.binary, 12)) <= 1

\* C25: the first application added the section, the second left it alone
C25_Witness ==
    /\ op = "inject2"
    /\ ~res.first.panic /\ ~res.second.panic
    /\ Len(res.first.binary) > Len(buf)
    /\ res.second.binary = res.first.binary

(***************************************************************************)
(* The metadata policy (SpecText).                                          *)
(***************************************************************************)
\* C26: when the name section gave no entries the metadata is what the scan
\* of the source text gives; when it gave entries, the field list is one of
\* the name section's and the type name is that of the first struct type of
\* the source, or WasmGcStruct when the source declares none.
C26_BinaryFirst ==
    op = "fieldnames" =>
        /\ res.map = EmptyMap => res.json \in parse_wat_field_names(buf)
        /\ res.map # EmptyMap =>
               /\ res.json.kind = "default"
               /\ \E k \in DOMAIN res.map : res.json.fields = res.map[k]
               /\ res.json.typeName =
                      IF StructStarts(buf) = {} THEN WasmGcStruct
                      ELSE FirstStruct(buf).name

\* C26: the name section gave entries and the source declares a struct type
\* with other fields: the name is the source's, the fields are not
C26_Witness ==
    /\ op = "fieldnames"
    /\ res.map # EmptyMap
    /\ StructStarts(buf) # {}
    /\ res.json.typeName = FirstStruct(buf).name
    /\ res.json.fields # FirstStruct(buf).fields
    /\ res.json \notin parse_wat_field_names(buf)

(***************************************************************************)
(* The follow-up code (SpecHost).                                           *)
(***************************************************************************)
\* C27: the snippet of an adapter has run only if the adapter's own module
\* has been instantiated and installed, never before that and never when
\* its instantiation failed; an adapter generated without a snippet, or with
\* a blank one, runs none.
C27_SnippetGated ==
    \A a \in Adapters :
        /\ page[a].runs > 0 =>
               /\ page[a].phase = "loaded"
               /\ ~page[a].early
               /\ page[a].listener = GoCallback
        /\ page[a].phase = "failed" => page[a].runs = 0

(***************************************************************************)
(* Termination of the scanners (SpecWalk).                                  *)
(***************************************************************************)
\* the step is an iteration after which the loop goes on
Continues == op # "init" /\ op' = op /\ res.st = "loop" /\ res'.st = "loop"

\* the step leaves the field loop of parse_field_names_subsection
LeavesFieldLoop == op = "field_walk" /\ res.inner /\ ~res'.inner

\* the scanner has returned
WalkEnded == op # "init" /\ res.st # "loop"

\* C28: every iteration after which a loop goes on has moved the position
\* forward by at least one byte (the exit of the inner field loop goes back
\* to the type loop at the same or a later position), and every scan comes
\* to its end.
C28_EveryScanEnds ==
    /\ [][Continues => \/ res'.pos > res.pos
                       \/ LeavesFieldLoop /\ res'.pos >= res.pos]_vars
    /\ (op # "init") ~> WalkEnded

\* C28: the type loop was left with a count of iterations still to go far
\* larger than the data
C28_Witness ==
    /\ op = "field_walk"
    /\ res.st = "done"
    /\ res.types > Len(buf)
    /\ res.pos >= Len(buf)

====
